---- MODULE Spec2Model ----
(***************************************************************************)
(* Model of the research agent's citation post-processing                  *)
(* (app/callbacks/citation_replacement.py), of the research_pipeline       *)
(* composition (app/subagents/research_pipeline/agent.py), of the          *)
(* deployment script (app/agent_engine_app.py) and of the memory           *)
(* verification scripts (app/memory).                                      *)
(*                                                                         *)
(* Python strings are sequences of one-character strings, so that the two  *)
(* regular-expression substitutions of the callback are computed character *)
(* by character, as re.sub computes them.  Python dicts are functions      *)
(* whose DOMAIN is the set of keys that are present.                       *)
(***************************************************************************)
EXTENDS Integers, Sequences, FiniteSets, TLC

VARIABLES
    state,      \* callback_context.state: dict from state key to value
    trace,      \* the run of the tag substitution: its output, the texts
                \* passed to logging.warning, the calls of tag_replacer
    content,    \* text of the Content returned by the callback (<<>> before)
    pc,         \* "ready", "returned" (callback returned) or "raised"
    agent,      \* the sub-agent of research_pipeline that is running, or "none"
    next_stage, \* index in research_pipeline.sub_agents of the stage to run
    loop_pos,   \* index in the loop's sub_agents of the agent to run
    times_looped,   \* completed iterations of iterative_refinement_loop
    grade,      \* the grade research_evaluator last wrote: "pass", "fail",
                \* or "none" when there is none
    outcome,    \* of the pipeline run: "running", "completed", "failed"
    events,     \* history: <<"start" | "end" | "escalate" | "fail", agent>>
    script,     \* the script or builder that runs, or "none"
    step,       \* the statement of the script that is executed next
    status,     \* "idle", "running", "returned" (the function returned) or
                \* "crashed" (an exception left the script uncaught)
    sdk_calls,  \* history of the calls to the vendor SDK, the file system
                \* and sleep: records [call, result, ...], in order
    printed,    \* the messages an except block of the script printed
    environ,    \* os.environ: dict from variable name to value
    dirs,       \* the directories that exist
    files,      \* the files that exist: dict from path to content
    locals      \* the local variables of the script that are assigned

citation_vars == <<state, trace, content, pc>>
pipeline_vars ==
    <<agent, next_stage, loop_pos, times_looped, grade, outcome, events>>
script_vars ==
    <<script, step, status, sdk_calls, printed, environ, dirs, files, locals>>
vars == <<citation_vars, pipeline_vars, script_vars>>

----------------------------------------------------------------------------
(* Character classes of Python's re for str patterns, cut to the alphabet  *)
(* of the model.                                                           *)

\* \s
Whitespace == {" ", "\t", "\n"}

\* \d
Digit == {"0", "1", "2", "3", "4", "5", "6", "7", "8", "9"}

\* ["\'], mutated: the double quote only.
QuoteCharsDoubleOnly == {"\""}

\* ["\']
QuoteChars == {"\"", "'"}

\* [.,;:]
Punctuation == {".", ",", ";", ":"}

\* The literal pieces of the tag pattern.
LitCite == <<"<", "c", "i", "t", "e">>
LitSource == <<"s", "o", "u", "r", "c", "e">>
LitEquals == <<"=">>
LitSrc == <<"s", "r", "c", "-">>
LitClose == <<"/", ">">>

----------------------------------------------------------------------------
(* Regular-expression primitives.  A position is an index into the string; *)
(* a failed match is position 0.                                           *)

\* Position after the literal lit when s holds it at position i, else 0.
Lit(s, i, lit) ==
    IF i = 0 \/ i + Len(lit) - 1 > Len(s) THEN 0
    ELSE IF \A k \in 1..Len(lit) : s[i + k - 1] = lit[k] THEN i + Len(lit)
    ELSE 0

\* Position after the longest run of characters of class cls starting at i
\* (greedy X*); i itself when there is none.
RECURSIVE Star(_, _, _)
Star(s, i, cls) ==
    IF i = 0 THEN 0
    ELSE IF i <= Len(s) /\ s[i] \in cls THEN Star(s, i + 1, cls)
    ELSE i

\* Greedy X+: at least one character of the class.
Plus(s, i, cls) ==
    LET j == Star(s, i, cls) IN IF j > i THEN j ELSE 0

\* Greedy X?: one character of the class when there is one.
Opt(s, i, cls) ==
    IF i = 0 THEN 0
    ELSE IF i <= Len(s) /\ s[i] \in cls THEN i + 1
    ELSE i

\* The result of a pattern that does not match.
NoMatch == [end |-> 0, g1from |-> 0, g1to |-> 0]

\* The tag pattern mutated to end with (/>)?: the closing '/>' is optional.
TagPatternOptionalClose(s, i) ==
    IF Lit(s, i, LitCite) = 0 THEN NoMatch
    ELSE LET a == Plus(s, Lit(s, i, LitCite), Whitespace)
             b == Star(s, Lit(s, a, LitSource), Whitespace)
             c == Star(s, Lit(s, b, LitEquals), Whitespace)
             d == Star(s, Opt(s, c, QuoteChars), Whitespace)
             e == Plus(s, Lit(s, d, LitSrc), Digit)
             f == Star(s, e, Whitespace)
             g == Star(s, Opt(s, f, QuoteChars), Whitespace)
             h == Lit(s, g, LitClose)
         IN  [end |-> IF h # 0 THEN h ELSE g, g1from |-> d, g1to |-> e - 1]

\* <cite\s+source\s*=\s*["\']?\s*(src-\d+)\s*["\']?\s*/> tried at position i.
\* The classes of adjacent pieces are disjoint, so the greedy choice is the
\* only one that can match: [end |-> position after the match (0: no match),
\* g1from, g1to |-> the span of group 1].
TagPattern(s, i) ==
    IF Lit(s, i, LitCite) = 0 THEN NoMatch
    ELSE LET a == Plus(s, Lit(s, i, LitCite), Whitespace)
             b == Star(s, Lit(s, a, LitSource), Whitespace)
             c == Star(s, Lit(s, b, LitEquals), Whitespace)
             d == Star(s, Opt(s, c, QuoteChars), Whitespace)
             e == Plus(s, Lit(s, d, LitSrc), Digit)
             f == Star(s, e, Whitespace)
             g == Star(s, Opt(s, f, QuoteChars), Whitespace)
             h == Lit(s, g, LitClose)
         IN  [end |-> h, g1from |-> d, g1to |-> e - 1]

\* \s+([.,;:]) mutated to \s([.,;:]): one whitespace character only.
PunctPatternSingle(s, i) ==
    IF i < Len(s) /\ s[i] \in Whitespace /\ s[i + 1] \in Punctuation
    THEN i + 1 ELSE 0

\* \s+([.,;:]) tried at position i: the position of the punctuation
\* character that ends the match, or 0.
PunctPattern(s, i) ==
    LET j == Plus(s, i, Whitespace)
    IN  IF j # 0 /\ j <= Len(s) /\ s[j] \in Punctuation THEN j ELSE 0

----------------------------------------------------------------------------
(* Python dict access.                                                     *)

EmptyDict == [k \in {} |-> <<>>]

\* d.get(k, default)
Get(d, k, default) == IF k \in DOMAIN d THEN d[k] ELSE default

\* bool(sources.get(k)) for a mapping whose values are dicts: the key is
\* present and its record is not the empty dict.
Truthy(d, k) == k \in DOMAIN d /\ DOMAIN d[k] # {}

----------------------------------------------------------------------------
(* citation_replacement_callback                                           *)

\* Line 30, mutated: an unknown tag is replaced by a blank.
RemovedTextBlank == <<" ">>

\* Line 30: return "".
RemovedText == <<>>

\* Line 31, mutated: the domain is preferred to the title.
DisplayTextDomainFirst(source_info, short_id) ==
    Get(source_info, "domain", Get(source_info, "title", short_id))

\* Line 31: source_info.get("title", source_info.get("domain", short_id)).
DisplayText(source_info, short_id) ==
    Get(source_info, "title", Get(source_info, "domain", short_id))

\* Line 32, mutated: no blank before the link.
LinkTextNoBlank(display_text, url) ==
    <<"[">> \o display_text \o <<"]", "(">> \o url \o <<")">>

\* Line 32: f" [{display_text}]({source_info['url']})".
LinkText(display_text, url) ==
    <<" ", "[">> \o display_text \o <<"]", "(">> \o url \o <<")">>

\* tag_replacer(match): the outcome of one call, for the match of string s
\* that starts at i and ends before position m.end.  kind is "removed" (a
\* warning logged, "" returned), "link" (the Markdown link returned) or
\* "raised" (KeyError: 'url').  warning is match.group(0), the variable part
\* of the logged message "Invalid citation tag found and removed: ...".
tag_replacer(sources, s, i, m) ==
    LET short_id == SubSeq(s, m.g1from, m.g1to)
        group0 == SubSeq(s, i, m.end - 1)
        base == [from |-> i, to |-> m.end - 1, short_id |-> short_id]
    IN  IF ~Truthy(sources, short_id)
        THEN base @@ [kind |-> "removed", text |-> RemovedText,
                      warning |-> group0]
        ELSE LET source_info == sources[short_id]
                 display_text == DisplayText(source_info, short_id)
             IN  IF "url" \notin DOMAIN source_info
                 THEN base @@ [kind |-> "raised", text |-> <<>>,
                               warning |-> <<>>]
                 ELSE base @@ [kind |-> "link",
                               text |-> LinkText(display_text,
                                                 source_info["url"]),
                               warning |-> <<>>]

\* The least element of a non-empty set of positions.
Leftmost(ps) == CHOOSE p \in ps : \A q \in ps : p <= q

\* pattern.search(s, i) for the tag pattern: the leftmost position from i on
\* at which the pattern matches, or 0.
SearchTag(s, i) ==
    LET ps == {p \in i..Len(s) : TagPattern(s, p).end # 0}
    IN  IF ps = {} THEN 0 ELSE Leftmost(ps)

\* re.sub mutated to count=1: only the first match is replaced.
SubTagsOnce(sources, s, i, acc) ==
    LET p == SearchTag(s, i)
    IN  IF p = 0
        THEN [acc EXCEPT !.out = @ \o SubSeq(s, i, Len(s))]
        ELSE LET m == TagPattern(s, p)
                 r == tag_replacer(sources, s, p, m)
             IN  IF r.kind = "raised"
                 THEN [acc EXCEPT !.calls = Append(@, r), !.raised = TRUE]
                 ELSE [out |-> acc.out \o SubSeq(s, i, p - 1) \o r.text
                               \o SubSeq(s, m.end, Len(s)),
                       log |-> IF r.kind = "removed"
                               THEN Append(acc.log, r.warning)
                               ELSE acc.log,
                       calls |-> Append(acc.calls, r),
                       raised |-> FALSE]

\* re.sub(tag pattern, tag_replacer, final_report) from position i on, with
\* acc = [out, log, calls, raised] what the scan has produced so far.  The
\* scan takes the leftmost match, copies the text before it, calls
\* tag_replacer, continues after the match, and stops at the first call that
\* raises.
RECURSIVE SubTags(_, _, _, _)
SubTags(sources, s, i, acc) ==
    LET p == SearchTag(s, i)
    IN  IF p = 0
        THEN [acc EXCEPT !.out = @ \o SubSeq(s, i, Len(s))]
        ELSE LET m == TagPattern(s, p)
                 r == tag_replacer(sources, s, p, m)
             IN  IF r.kind = "raised"
                 THEN [acc EXCEPT !.calls = Append(@, r), !.raised = TRUE]
                 ELSE SubTags(sources, s, m.end,
                         [out |-> acc.out \o SubSeq(s, i, p - 1) \o r.text,
                          log |-> IF r.kind = "removed"
                                  THEN Append(acc.log, r.warning)
                                  ELSE acc.log,
                          calls |-> Append(acc.calls, r),
                          raised |-> FALSE])

\* pattern.search(s, i) for \s+([.,;:]).
SearchPunct(s, i) ==
    LET ps == {p \in i..Len(s) : PunctPattern(s, p) # 0}
    IN  IF ps = {} THEN 0 ELSE Leftmost(ps)

\* The punctuation pass mutated to count=1: only the first match is
\* replaced.
SubPunctOnce(s, i, out) ==
    LET p == SearchPunct(s, i)
    IN  IF p = 0 THEN out \o SubSeq(s, i, Len(s))
        ELSE out \o SubSeq(s, i, p - 1)
                 \o SubSeq(s, PunctPattern(s, p), Len(s))

\* re.sub(r"\s+([.,;:])", r"\1", processed_report) from position i on: each
\* match is replaced by its group 1, the punctuation character.
RECURSIVE SubPunct(_, _, _)
SubPunct(s, i, out) ==
    LET p == SearchPunct(s, i)
    IN  IF p = 0 THEN out \o SubSeq(s, i, Len(s))
        ELSE LET j == PunctPattern(s, p)
             IN  SubPunct(s, j + 1, out \o SubSeq(s, i, p - 1) \o <<s[j]>>)

NoTrace == [out |-> <<>>, log |-> <<>>, calls |-> <<>>, raised |-> FALSE]

\* Lines 23-38 of the callback on the state dict st: the report and the
\* sources are read with their defaults and the tags are substituted.
SubstituteTags(st) ==
    SubTags(Get(st, "sources", EmptyDict),
            Get(st, "final_cited_report", <<>>), 1, NoTrace)

\* Line 39: processed_report after the punctuation pass.
FixPunctuation(processed_report) == SubPunct(processed_report, 1, <<>>)

----------------------------------------------------------------------------
(* Inputs: the reports the composer can have left in the state and the     *)
(* sources the researcher can have collected.                              *)

\* Longest report, in fragments.
MaxFrags == 3

\* <cite source="src-1"/> and <cite source="src-9"/>, the canonical form.
TagSrc1 ==
    <<"<", "c", "i", "t", "e", " ", "s", "o", "u", "r", "c", "e", "=", "\"",
      "s", "r", "c", "-", "1", "\"", "/", ">">>
TagSrc9 ==
    <<"<", "c", "i", "t", "e", " ", "s", "o", "u", "r", "c", "e", "=", "\"",
      "s", "r", "c", "-", "9", "\"", "/", ">">>

\* The tag of src-1 with single quotes and whitespace (blank, tab, newline)
\* around '=', inside the quotes and before '/>'; and with no quotes.
TagSingleQuoted ==
    <<"<", "c", "i", "t", "e", "\t", "s", "o", "u", "r", "c", "e", " ", "=",
      " ", "'", "\n", "s", "r", "c", "-", "1", " ", "'", " ", "/", ">">>
TagUnquoted ==
    <<"<", "c", "i", "t", "e", " ", "s", "o", "u", "r", "c", "e", "=",
      "s", "r", "c", "-", "1", "/", ">">>

\* Malformed tags: <cite source="src-1 , src-2"/> (the id is not src-N) and
\* <cite source="src-1" (the closing '/>' is missing).
TagTwoIds ==
    <<"<", "c", "i", "t", "e", " ", "s", "o", "u", "r", "c", "e", "=", "\"",
      "s", "r", "c", "-", "1", " ", ",", " ", "s", "r", "c", "-", "2", "\"",
      "/", ">">>
TagUnclosed ==
    <<"<", "c", "i", "t", "e", " ", "s", "o", "u", "r", "c", "e", "=", "\"",
      "s", "r", "c", "-", "1", "\"">>

WellFormedTags == {TagSrc1, TagSrc9, TagSingleQuoted, TagUnquoted}
VariantTags == {TagSingleQuoted, TagUnquoted}
MalformedTags == {TagTwoIds, TagUnclosed}

\* Plain text.
TextSee == <<"S", "e", "e", " ">>
TextStop == <<" ", ".">>
TextClose == <<"/", ">">>

Fragments ==
    WellFormedTags \cup MalformedTags \cup {TextSee, TextStop, TextClose}

RECURSIVE Flatten(_)
Flatten(fs) == IF fs = <<>> THEN <<>> ELSE Head(fs) \o Flatten(Tail(fs))

Reports ==
    {Flatten(fs) : fs \in UNION {[1..n -> Fragments] : n \in 0..MaxFrags}}

Src1 == <<"s", "r", "c", "-", "1">>
Title == <<"E", "x", "a", "m", "p", "l", "e">>
Domain == <<"e", "x", ".", "c", "o", "m">>
Url == <<"h", "t", "t", "p", "s", ":", "/", "/", "e", "x", ".", "c", "o", "m">>

\* The source records of src-1: the empty record, a record with no url,
\* the records with a url and each choice of label fields, and a record
\* whose title is itself the text of a citation tag.
SourceRecords ==
    {EmptyDict,
     [title |-> Title],
     [url |-> Url],
     [domain |-> Domain, url |-> Url],
     [title |-> Title, url |-> Url],
     [title |-> Title, domain |-> Domain, url |-> Url],
     [title |-> TagSrc1, url |-> Url]}

SourceMappings == {EmptyDict} \cup {(Src1 :> r) : r \in SourceRecords}

\* The state dicts the callback can find: either key may be missing.
StateDicts ==
    {r @@ s :
        r \in {EmptyDict} \cup {("final_cited_report" :> x) : x \in Reports},
        s \in {EmptyDict} \cup {("sources" :> x) : x \in SourceMappings}}

----------------------------------------------------------------------------
(* The citation callback as a state machine.                               *)

\* The pipeline before a run.
PipelineIdle ==
    /\ agent = "none"
    /\ next_stage = 1
    /\ loop_pos = 1
    /\ times_looped = 0
    /\ grade = "none"
    /\ outcome = "running"
    /\ events = <<>>

\* No script runs.
ScriptsIdle ==
    /\ script = "none"
    /\ step = "none"
    /\ status = "idle"
    /\ sdk_calls = <<>>
    /\ printed = <<>>
    /\ environ = EmptyDict
    /\ dirs = {}
    /\ files = EmptyDict
    /\ locals = EmptyDict

InitCitation ==
    /\ state \in StateDicts
    /\ trace = NoTrace
    /\ content = <<>>
    /\ pc = "ready"
    /\ PipelineIdle
    /\ ScriptsIdle

\* citation_replacement_callback, report_composer's after_agent_callback,
\* runs once on the state it finds.  When tag_replacer raises, nothing is
\* stored or returned; otherwise the processed report is stored under
\* final_report_with_citations and returned.
citation_replacement_callback ==
    /\ pc = "ready"
    /\ trace' = SubstituteTags(state)
    /\ IF trace'.raised
       THEN /\ pc' = "raised"
            /\ UNCHANGED <<state, content>>
       ELSE /\ pc' = "returned"
            /\ content' = FixPunctuation(trace'.out)
            /\ state' = ("final_report_with_citations" :> content') @@ state
    /\ UNCHANGED <<pipeline_vars, script_vars>>

NextCitation == citation_replacement_callback

SpecCitation == InitCitation /\ [][NextCitation]_vars

----------------------------------------------------------------------------
(* research_pipeline: a SequentialAgent over section_planner,              *)
(* section_researcher, the LoopAgent iterative_refinement_loop and         *)
(* report_composer.  A SequentialAgent runs its sub-agents in list order,  *)
(* each to its end; a LoopAgent runs its sub-agents in list order, again   *)
(* and again, until one of them escalates or max_iterations iterations are *)
(* done.  An exception of a sub-agent ends the run.                        *)

\* config.max_search_iterations
max_search_iterations == 5

\* research_pipeline.sub_agents, mutated: the composer before the loop.
sub_agents_composer_first ==
    <<"section_planner", "section_researcher", "report_composer",
      "iterative_refinement_loop">>

\* research_pipeline.sub_agents
sub_agents ==
    <<"section_planner", "section_researcher", "iterative_refinement_loop",
      "report_composer">>

\* iterative_refinement_loop.sub_agents, mutated: the search before the
\* escalation check.
loop_sub_agents_search_first ==
    <<"research_evaluator", "enhanced_search_executor", "escalation_checker">>

\* iterative_refinement_loop.sub_agents
loop_sub_agents ==
    <<"research_evaluator", "escalation_checker", "enhanced_search_executor">>

\* The agent whose turn it is.
CurrentSubAgent ==
    IF sub_agents[next_stage] = "iterative_refinement_loop"
    THEN loop_sub_agents[loop_pos]
    ELSE sub_agents[next_stage]

\* EscalationChecker: escalates, which ends the loop, when the evaluator's
\* grade is "pass".
Escalates == grade = "pass"

InitPipeline ==
    /\ state = EmptyDict
    /\ trace = NoTrace
    /\ content = <<>>
    /\ pc = "ready"
    /\ PipelineIdle
    /\ ScriptsIdle

\* The composition starts the agent whose turn it is, once the one before
\* it has ended.
StartAgent ==
    /\ outcome = "running"
    /\ agent = "none"
    /\ next_stage <= Len(sub_agents)
    /\ agent' = CurrentSubAgent
    /\ events' = Append(events, <<"start", CurrentSubAgent>>)
    /\ UNCHANGED <<next_stage, loop_pos, times_looped, grade, outcome>>
    /\ UNCHANGED <<citation_vars, script_vars>>

\* A stage that is a single agent ends: the SequentialAgent goes on to the
\* next stage, and the run is complete after the last one.
FinishStage ==
    /\ agent \in {"section_planner", "section_researcher", "report_composer"}
    /\ agent' = "none"
    /\ events' = Append(events, <<"end", agent>>)
    /\ next_stage' = next_stage + 1
    /\ outcome' = IF next_stage = Len(sub_agents) THEN "completed"
                  ELSE outcome
    /\ UNCHANGED <<loop_pos, times_looped, grade>>
    /\ UNCHANGED <<citation_vars, script_vars>>

\* research_evaluator ends, having graded the findings "pass" or "fail", or
\* having written no grade that can be read ("none").
FinishEvaluator ==
    /\ agent = "research_evaluator"
    /\ agent' = "none"
    /\ events' = Append(events, <<"end", agent>>)
    /\ \E g \in {"pass", "fail", "none"} : grade' = g
    /\ loop_pos' = loop_pos + 1
    /\ UNCHANGED <<next_stage, times_looped, outcome>>
    /\ UNCHANGED <<citation_vars, script_vars>>

\* escalation_checker, mutated: the LoopAgent ignores the escalation.
FinishCheckerNoExit ==
    /\ agent = "escalation_checker"
    /\ agent' = "none"
    /\ events' = IF Escalates
                 THEN events \o <<<<"escalate", agent>>, <<"end", agent>>>>
                 ELSE Append(events, <<"end", agent>>)
    /\ loop_pos' = loop_pos + 1
    /\ UNCHANGED <<next_stage, outcome, times_looped, grade>>
    /\ UNCHANGED <<citation_vars, script_vars>>

\* escalation_checker ends: when it escalated (an event with
\* actions.escalate) the LoopAgent returns at once, otherwise the loop goes
\* on to the next sub-agent.
FinishChecker ==
    /\ agent = "escalation_checker"
    /\ agent' = "none"
    /\ events' = IF Escalates
                 THEN events \o <<<<"escalate", agent>>, <<"end", agent>>>>
                 ELSE Append(events, <<"end", agent>>)
    /\ IF Escalates
       THEN /\ next_stage' = next_stage + 1
            /\ outcome' = IF next_stage = Len(sub_agents) THEN "completed"
                          ELSE outcome
            /\ UNCHANGED loop_pos
       ELSE /\ loop_pos' = loop_pos + 1
            /\ UNCHANGED <<next_stage, outcome>>
    /\ UNCHANGED <<times_looped, grade>>
    /\ UNCHANGED <<citation_vars, script_vars>>

\* enhanced_search_executor, mutated: the LoopAgent compares with <= and
\* runs one iteration more.
FinishSearchOffByOne ==
    /\ agent = "enhanced_search_executor"
    /\ agent' = "none"
    /\ events' = Append(events, <<"end", agent>>)
    /\ times_looped' = times_looped + 1
    /\ IF times_looped + 1 <= max_search_iterations
       THEN /\ loop_pos' = 1
            /\ UNCHANGED <<next_stage, outcome>>
       ELSE /\ next_stage' = next_stage + 1
            /\ outcome' = IF next_stage = Len(sub_agents) THEN "completed"
                          ELSE outcome
            /\ UNCHANGED loop_pos
    /\ UNCHANGED grade
    /\ UNCHANGED <<citation_vars, script_vars>>

\* enhanced_search_executor, the last agent of an iteration, ends: the
\* LoopAgent counts the iteration and starts another one unless
\* max_iterations are done.
FinishSearch ==
    /\ agent = "enhanced_search_executor"
    /\ agent' = "none"
    /\ events' = Append(events, <<"end", agent>>)
    /\ times_looped' = times_looped + 1
    /\ IF times_looped + 1 < max_search_iterations
       THEN /\ loop_pos' = 1
            /\ UNCHANGED <<next_stage, outcome>>
       ELSE /\ next_stage' = next_stage + 1
            /\ outcome' = IF next_stage = Len(sub_agents) THEN "completed"
                          ELSE outcome
            /\ UNCHANGED loop_pos
    /\ UNCHANGED grade
    /\ UNCHANGED <<citation_vars, script_vars>>

\* The running agent raises, mutated: the composition catches the exception
\* and runs the agent again.
FailAgentRetry ==
    /\ agent # "none"
    /\ agent' = "none"
    /\ events' = Append(events, <<"fail", agent>>)
    /\ UNCHANGED <<next_stage, loop_pos, times_looped, grade, outcome>>
    /\ UNCHANGED <<citation_vars, script_vars>>

\* The running agent raises: the exception leaves the LoopAgent and the
\* SequentialAgent, which have no handler, and the run is over.
FailAgent ==
    /\ agent # "none"
    /\ agent' = "none"
    /\ events' = Append(events, <<"fail", agent>>)
    /\ outcome' = "failed"
    /\ UNCHANGED <<next_stage, loop_pos, times_looped, grade>>
    /\ UNCHANGED <<citation_vars, script_vars>>

NextPipeline ==
    \/ StartAgent
    \/ FinishStage
    \/ FinishEvaluator
    \/ FinishChecker
    \/ FinishSearch
    \/ FailAgent

SpecPipeline == InitPipeline /\ [][NextPipeline]_vars

\* The runtime drives a run on: an agent whose turn it is gets started, and
\* a started agent's run comes to an end, normally unless it raises.
SpecPipelineLive ==
    /\ SpecPipeline
    /\ WF_vars(StartAgent)
    /\ WF_vars(FinishStage)
    /\ WF_vars(FinishEvaluator)
    /\ WF_vars(FinishChecker)
    /\ WF_vars(FinishSearch)

----------------------------------------------------------------------------
(* The scripts.  A script is run statement by statement; a call to the     *)
(* vendor SDK, to the file system or to sleep either returns or raises,    *)
(* and is recorded in sdk_calls with its result.  An exception that no     *)
(* except block of the script catches leaves the script (status            *)
(* "crashed"): the interpreter prints the traceback and exits.             *)

\* The history of calls with one more call.
Called(call, result, arg) ==
    Append(sdk_calls, [call |-> call, result |-> result, arg |-> arg])

\* d[k] = v, as the dict assignment does it.
Assign(d, k, v) == (k :> v) @@ d

\* An exception propagates out of the script, mutated: a handler records
\* the failure in the metadata file on the way.
PropagatesRecordingFailure(call, arg) ==
    /\ sdk_calls' = Called(call, "raised", arg)
    /\ status' = "crashed"
    /\ files' = ("logs/deployment_metadata.json" :> [truncated |-> TRUE])
                   @@ files
    /\ UNCHANGED <<script, step, printed, environ, dirs, locals>>

\* An exception propagates out of the script.
Propagates(call, arg) ==
    /\ sdk_calls' = Called(call, "raised", arg)
    /\ status' = "crashed"
    /\ UNCHANGED <<script, step, printed, environ, dirs, files, locals>>

\* A call that returns nothing the script uses, outside any try block.
PlainCall(call, arg, next) ==
    \/ /\ sdk_calls' = Called(call, "ok", arg)
       /\ step' = next
       /\ UNCHANGED <<script, status, printed, environ, dirs, files, locals>>
    \/ Propagates(call, arg)

\* The citation callback and the pipeline are not part of a script's run.
NoAgentRun ==
    /\ state = EmptyDict
    /\ trace = NoTrace
    /\ content = <<>>
    /\ pc = "ready"
    /\ PipelineIdle

----------------------------------------------------------------------------
(* deploy_agent_engine_app (app/agent_engine_app.py).                      *)

\* str.split("/")[-1], mutated: the first segment.
RECURSIVE FirstSegment(_)
FirstSegment(s) ==
    IF s = <<>> \/ s[1] = "/" THEN <<>>
    ELSE <<s[1]>> \o FirstSegment(Tail(s))

\* resource_name.split("/")[-1]: the characters after the last "/".
RECURSIVE LastSegment(_)
LastSegment(s) ==
    IF s = <<>> \/ s[Len(s)] = "/" THEN <<>>
    ELSE Append(LastSegment(SubSeq(s, 1, Len(s) - 1)), s[Len(s)])

\* The configurations get_deployment_config can return.
DeploymentConfigs ==
    {[project |-> p, location |-> l, agent_name |-> "goal-planner",
      staging_bucket |-> "staging",
      requirements_file |-> ".requirements.txt"] :
        p \in {"proj-a"}, l \in {"us-central1", "europe-west1"}}

\* The environment of a deploy: either variable may be unset.
DeployEnvirons ==
    {a @@ b :
        a \in {EmptyDict, "MEMORY_GENERATION_INTERVAL" :> "EVERY_TURN"},
        b \in {EmptyDict, "AGENT_ENGINE_ID" :> "7"}}

\* Resource names of agent engines, as the vendor writes them.
EngineOne == <<"e", "n", "g", "i", "n", "e", "s", "/", "1">>
EngineTwo == <<"p", "/", "e", "n", "g", "i", "n", "e", "s", "/", "2">>
EngineNew == <<"e", "n", "g", "i", "n", "e", "s", "/", "3">>

\* What agent_engines.list(filter=display_name) can return.
Listings ==
    {<<>>,
     <<[resource_name |-> EngineOne]>>,
     <<[resource_name |-> EngineTwo], [resource_name |-> EngineOne]>>}

\* datetime.datetime.now().isoformat() of this run and of an earlier one.
Timestamps == {"2025-08-20T10:00:00", "2025-08-20T11:00:00"}
EarlierTimestamp == "2025-08-19T09:00:00"

logs_dir == "logs"
metadata_file == "logs/deployment_metadata.json"

\* env_vars, lines 169-174.
EnvVars(env) ==
    [NUM_WORKERS |-> "1",
     MEMORY_BANK_ENABLED |-> "true",
     MEMORY_GENERATION_INTERVAL |->
        Get(env, "MEMORY_GENERATION_INTERVAL", "END_OF_SESSION"),
     AGENT_ENGINE_ID |-> Get(env, "AGENT_ENGINE_ID", "")]

\* metadata, lines 232-257.
Metadata(deployment_config, env_vars, remote_agent, now) ==
    [remote_agent_engine_id |-> remote_agent.resource_name,
     agent_engine_id |-> LastSegment(remote_agent.resource_name),
     deployment_timestamp |-> now,
     agent_name |-> deployment_config.agent_name,
     project |-> deployment_config.project,
     location |-> deployment_config.location,
     memory_configuration |->
        [enabled |-> TRUE,
         service |-> "VertexAiMemoryBankService",
         generation_interval |-> env_vars.MEMORY_GENERATION_INTERVAL,
         agent_has_memory_tool |-> TRUE,
         automatic_generation |-> TRUE],
     session_service |->
        [type |-> "VertexAiSessionService",
         persistent |-> TRUE,
         configuration |->
            [project |-> deployment_config.project,
             location |-> deployment_config.location,
             agent_engine_id |-> LastSegment(remote_agent.resource_name)]]]

\* The metadata an earlier deploy left behind.
EarlierMetadata ==
    Metadata([project |-> "proj-a", location |-> "us-central1",
              agent_name |-> "goal-planner"],
             [MEMORY_GENERATION_INTERVAL |-> "END_OF_SESSION"],
             [resource_name |-> EngineOne], EarlierTimestamp)

\* A file that open(..., "w") truncated and json.dump did not finish.
Truncated == [truncated |-> TRUE]

InitDeploy ==
    /\ script = "deploy_agent_engine_app"
    /\ step = "get_deployment_config"
    /\ status = "running"
    /\ sdk_calls = <<>>
    /\ printed = <<>>
    /\ environ \in DeployEnvirons
    /\ \/ dirs = {} /\ files = EmptyDict
       \/ dirs = {logs_dir} /\ files = EmptyDict
       \/ dirs = {logs_dir} /\ files = (metadata_file :> EarlierMetadata)
    /\ locals = EmptyDict

Deploying(at) ==
    /\ script = "deploy_agent_engine_app"
    /\ status = "running"
    /\ step = at

\* Lines 162-174: the configuration is read, then env_vars is built from
\* the environment.
DeployGetConfig ==
    /\ Deploying("get_deployment_config")
    /\ \/ \E deployment_config \in DeploymentConfigs :
             /\ sdk_calls' = Called("get_deployment_config", "ok", "")
             /\ locals' = Assign(Assign(locals, "deployment_config",
                                        deployment_config),
                                 "env_vars", EnvVars(environ))
             /\ step' = "create_bucket_if_not_exists"
             /\ UNCHANGED <<script, status, printed, environ, dirs, files>>
       \/ Propagates("get_deployment_config", "")
    /\ UNCHANGED <<citation_vars, pipeline_vars>>

\* Lines 177-187.
DeployCreateBucket ==
    /\ Deploying("create_bucket_if_not_exists")
    /\ PlainCall("create_bucket_if_not_exists", "", "vertexai.init")
    /\ UNCHANGED <<citation_vars, pipeline_vars>>

\* Lines 190-194.
DeployVertexaiInit ==
    /\ Deploying("vertexai.init")
    /\ PlainCall("vertexai.init", "", "read_requirements")
    /\ UNCHANGED <<citation_vars, pipeline_vars>>

\* Lines 197-198.
DeployReadRequirements ==
    /\ Deploying("read_requirements")
    /\ PlainCall("open", locals.deployment_config.requirements_file,
                 "MemoryEnabledAgentEngineApp")
    /\ UNCHANGED <<citation_vars, pipeline_vars>>

\* Lines 201-217.
DeployCreateApp ==
    /\ Deploying("MemoryEnabledAgentEngineApp")
    /\ PlainCall("MemoryEnabledAgentEngineApp", "", "agent_engines.list")
    /\ UNCHANGED <<citation_vars, pipeline_vars>>

\* Lines 220-222.
DeployListAgents ==
    /\ Deploying("agent_engines.list")
    /\ \/ \E existing_agents \in Listings :
             /\ sdk_calls' = Called("agent_engines.list", "ok",
                                    locals.deployment_config.agent_name)
             /\ locals' = Assign(locals, "existing_agents", existing_agents)
             /\ step' = "deploy"
             /\ UNCHANGED <<script, status, printed, environ, dirs, files>>
       \/ Propagates("agent_engines.list",
                     locals.deployment_config.agent_name)
    /\ UNCHANGED <<citation_vars, pipeline_vars>>

\* Lines 224-229, mutated: a new agent is created whatever the listing.
DeployCreateOrUpdateAlwaysCreate ==
    /\ Deploying("deploy")
    /\ \/ /\ sdk_calls' = Called("agent_engines.create", "ok", <<>>)
          /\ locals' = Assign(locals, "remote_agent",
                              [resource_name |-> EngineNew])
          /\ step' = "mkdir"
          /\ UNCHANGED <<script, status, printed, environ, dirs, files>>
       \/ Propagates("agent_engines.create", <<>>)
    /\ UNCHANGED <<citation_vars, pipeline_vars>>

\* Lines 224-229: the first listed agent is updated, or a new agent is
\* created when none is listed.
DeployCreateOrUpdate ==
    /\ Deploying("deploy")
    /\ IF locals.existing_agents # <<>>
       THEN \/ /\ sdk_calls' = Called("update", "ok",
                                locals.existing_agents[1].resource_name)
               /\ locals' = Assign(locals, "remote_agent",
                                   locals.existing_agents[1])
               /\ step' = "mkdir"
               /\ UNCHANGED <<script, status, printed, environ, dirs, files>>
            \/ Propagates("update", locals.existing_agents[1].resource_name)
       ELSE \/ /\ sdk_calls' = Called("agent_engines.create", "ok", <<>>)
               /\ locals' = Assign(locals, "remote_agent",
                                   [resource_name |-> EngineNew])
               /\ step' = "mkdir"
               /\ UNCHANGED <<script, status, printed, environ, dirs, files>>
            \/ Propagates("agent_engines.create", <<>>)
    /\ UNCHANGED <<citation_vars, pipeline_vars>>

\* Lines 232-260: the metadata is built and the logs directory is made
\* when it is not there.
DeployMkdir ==
    /\ Deploying("mkdir")
    /\ \/ \E now \in Timestamps :
             /\ sdk_calls' = Called("mkdir", "ok", logs_dir)
             /\ locals' = Assign(locals, "metadata",
                                 Metadata(locals.deployment_config,
                                          locals.env_vars,
                                          locals.remote_agent, now))
             /\ dirs' = dirs \cup {logs_dir}
             /\ step' = "write_metadata"
             /\ UNCHANGED <<script, status, printed, environ, files>>
       \/ Propagates("mkdir", logs_dir)
    /\ UNCHANGED <<citation_vars, pipeline_vars>>

\* Lines 263-264, mutated: an existing metadata file is kept.
DeployWriteMetadataKeepExisting ==
    /\ Deploying("write_metadata")
    /\ sdk_calls' = Called("json.dump", "ok", metadata_file)
    /\ files' = IF metadata_file \in DOMAIN files THEN files
                ELSE Assign(files, metadata_file, locals.metadata)
    /\ step' = "return"
    /\ UNCHANGED <<script, status, printed, environ, dirs, locals>>
    /\ UNCHANGED <<citation_vars, pipeline_vars>>

\* Lines 263-264: open(metadata_file, "w") truncates the file and json.dump
\* writes the metadata; open can raise, which leaves the file as it was,
\* and json.dump can raise, which leaves it truncated.
DeployWriteMetadata ==
    /\ Deploying("write_metadata")
    /\ \/ /\ sdk_calls' = Called("json.dump", "ok", metadata_file)
          /\ files' = Assign(files, metadata_file, locals.metadata)
          /\ step' = "return"
          /\ UNCHANGED <<script, status, printed, environ, dirs, locals>>
       \/ Propagates("open", metadata_file)
       \/ /\ sdk_calls' = Called("json.dump", "raised", metadata_file)
          /\ files' = Assign(files, metadata_file, Truncated)
          /\ status' = "crashed"
          /\ UNCHANGED <<script, step, printed, environ, dirs, locals>>
    /\ UNCHANGED <<citation_vars, pipeline_vars>>

\* Lines 266-281.
DeployReturn ==
    /\ Deploying("return")
    /\ status' = "returned"
    /\ UNCHANGED <<script, step, sdk_calls, printed, environ, dirs, files,
                   locals>>
    /\ UNCHANGED <<citation_vars, pipeline_vars>>

----------------------------------------------------------------------------
(* main of app/memory/memory_api_test.py and of                            *)
(* app/memory/failed_tests/ingest_specific_session.py: calls outside any   *)
(* try block, then steps that each have their own try/except, which prints *)
(* the error and lets the script go on with the next step.                 *)

\* A call inside a try block whose except prints message and falls through
\* to the statement after the block.
CaughtCall(call, arg, message, next) ==
    \/ /\ sdk_calls' = Called(call, "ok", arg)
       /\ step' = next
       /\ UNCHANGED <<script, status, printed, environ, dirs, files, locals>>
    \/ /\ sdk_calls' = Called(call, "raised", arg)
       /\ printed' = Append(printed, message)
       /\ step' = next
       /\ UNCHANGED <<script, status, environ, dirs, files, locals>>

\* The roles of the turns of conversation, memory_api_test.py lines 103-112.
conversation ==
    <<"user", "model", "user", "model", "user", "model", "user", "model">>

InitApiTest ==
    /\ script = "memory_api_test"
    /\ step = "vertexai.init"
    /\ status = "running"
    /\ sdk_calls = <<>>
    /\ printed = <<>>
    /\ environ = EmptyDict
    /\ dirs = {}
    /\ files = EmptyDict
    /\ locals = EmptyDict

ApiTesting(at) ==
    /\ script = "memory_api_test"
    /\ status = "running"
    /\ step = at

\* Lines 59-60.
ApiTestInit ==
    /\ ApiTesting("vertexai.init")
    /\ PlainCall("vertexai.init", "", "vertexai.Client")
    /\ UNCHANGED <<citation_vars, pipeline_vars>>

ApiTestClient ==
    /\ ApiTesting("vertexai.Client")
    /\ PlainCall("vertexai.Client", "", "SessionServiceClient")
    /\ UNCHANGED <<citation_vars, pipeline_vars>>

\* Lines 75-80.
ApiTestSessionsClient ==
    /\ ApiTesting("SessionServiceClient")
    /\ PlainCall("SessionServiceClient", "", "create_session")
    /\ UNCHANGED <<citation_vars, pipeline_vars>>

\* Lines 85-92.
ApiTestCreateSession ==
    /\ ApiTesting("create_session")
    /\ \/ /\ sdk_calls' = Called("create_session", "ok", "")
          /\ locals' = Assign(Assign(locals, "session_name", "session-1"),
                              "i", 1)
          /\ step' = "append_event"
          /\ UNCHANGED <<script, status, printed, environ, dirs, files>>
       \/ Propagates("create_session", "")
    /\ UNCHANGED <<citation_vars, pipeline_vars>>

\* Lines 116-130: one pass of the loop over conversation.
ApiTestAppendEvent ==
    /\ ApiTesting("append_event")
    /\ \/ /\ sdk_calls' = Called("append_event", "ok", locals.session_name)
          /\ locals' = Assign(locals, "i", locals.i + 1)
          /\ step' = IF locals.i = Len(conversation)
                     THEN "generate_memories" ELSE "append_event"
          /\ UNCHANGED <<script, status, printed, environ, dirs, files>>
       \/ Propagates("append_event", locals.session_name)
    /\ UNCHANGED <<citation_vars, pipeline_vars>>

\* Lines 144-159.
ApiTestGenerateMemories ==
    /\ ApiTesting("generate_memories")
    /\ CaughtCall("generate_memories", locals.session_name,
                  "Memory generation error", "sleep")
    /\ UNCHANGED <<citation_vars, pipeline_vars>>

\* Line 163.
ApiTestSleep ==
    /\ ApiTesting("sleep")
    /\ sdk_calls' = Called("sleep", "ok", "10")
    /\ step' = "retrieve_memories"
    /\ UNCHANGED <<script, status, printed, environ, dirs, files, locals>>
    /\ UNCHANGED <<citation_vars, pipeline_vars>>

\* Lines 175-205.
ApiTestRetrieveMemories ==
    /\ ApiTesting("retrieve_memories")
    /\ CaughtCall("retrieve_memories", "", "Error retrieving memories",
                  "create_memory")
    /\ UNCHANGED <<citation_vars, pipeline_vars>>

\* Lines 217-230.
ApiTestCreateMemory ==
    /\ ApiTesting("create_memory")
    /\ CaughtCall("create_memory", "", "Direct memory creation error",
                  "return")
    /\ UNCHANGED <<citation_vars, pipeline_vars>>

\* Lines 236-249.
ApiTestReturn ==
    /\ ApiTesting("return")
    /\ status' = "returned"
    /\ UNCHANGED <<script, step, sdk_calls, printed, environ, dirs, files,
                   locals>>
    /\ UNCHANGED <<citation_vars, pipeline_vars>>

InitIngest ==
    /\ script = "ingest_specific_session"
    /\ step = "vertexai.init"
    /\ status = "running"
    /\ sdk_calls = <<>>
    /\ printed = <<>>
    /\ environ = EmptyDict
    /\ dirs = {}
    /\ files = EmptyDict
    /\ locals = EmptyDict

Ingesting(at) ==
    /\ script = "ingest_specific_session"
    /\ status = "running"
    /\ step = at

\* Line 63.
IngestInit ==
    /\ Ingesting("vertexai.init")
    /\ PlainCall("vertexai.init", "", "VertexAiMemoryBankService")
    /\ UNCHANGED <<citation_vars, pipeline_vars>>

\* Lines 68-72.
IngestMemoryService ==
    /\ Ingesting("VertexAiMemoryBankService")
    /\ PlainCall("VertexAiMemoryBankService", "", "VertexAiSessionService")
    /\ UNCHANGED <<citation_vars, pipeline_vars>>

\* Lines 74-78.
IngestSessionService ==
    /\ Ingesting("VertexAiSessionService")
    /\ PlainCall("VertexAiSessionService", "", "add_session_to_memory")
    /\ UNCHANGED <<citation_vars, pipeline_vars>>

\* Lines 90-108: the except block records the failure in ingestion_success
\* and the script goes on.
IngestAddSession ==
    /\ Ingesting("add_session_to_memory")
    /\ \/ /\ sdk_calls' = Called("add_session_to_memory", "ok", "")
          /\ locals' = Assign(locals, "ingestion_success", TRUE)
          /\ step' = "sleep"
          /\ UNCHANGED printed
       \/ /\ sdk_calls' = Called("add_session_to_memory", "raised", "")
          /\ printed' = Append(printed, "Error ingesting session")
          /\ locals' = Assign(locals, "ingestion_success", FALSE)
          /\ step' = "search_memory"
    /\ UNCHANGED <<script, status, environ, dirs, files>>
    /\ UNCHANGED <<citation_vars, pipeline_vars>>

\* Lines 111-113.
IngestSleep ==
    /\ Ingesting("sleep")
    /\ sdk_calls' = Called("sleep", "ok", "5")
    /\ step' = "search_memory"
    /\ UNCHANGED <<script, status, printed, environ, dirs, files, locals>>
    /\ UNCHANGED <<citation_vars, pipeline_vars>>

\* Lines 123-163.
IngestSearchMemory ==
    /\ Ingesting("search_memory")
    /\ CaughtCall("search_memory", "", "Error searching memory", "return")
    /\ UNCHANGED <<citation_vars, pipeline_vars>>

\* Lines 169-184.
IngestReturn ==
    /\ Ingesting("return")
    /\ status' = "returned"
    /\ UNCHANGED <<script, step, sdk_calls, printed, environ, dirs, files,
                   locals>>
    /\ UNCHANGED <<citation_vars, pipeline_vars>>

----------------------------------------------------------------------------
(* create_session_and_test_memory and main of                              *)
(* app/memory/create_new_session_memory_test_fixed.py.  The coroutine      *)
(* awaits each vendor call: the call begins (result "begin" in sdk_calls,  *)
(* status "awaiting") and the coroutine goes on when it has completed.     *)
(* An exception that leaves create_session_and_test_memory is caught by    *)
(* main, which prints it and returns.                                      *)

\* The user messages of the conversation, lines 120-126.
conversation_turns ==
    <<"restaurant recommendations", "Austin, Hyde Park", "vegetarian, Thai",
      "Titaya's Thai Cuisine", "similar restaurants">>

\* Lines 209-213.
test_queries ==
    <<"What city and neighborhood", "What type of food",
      "What is the favorite restaurant">>

\* The id the vendor gives to the next session it creates: one it has not
\* given before.
NewSessionId ==
    1 + Cardinality({n \in DOMAIN sdk_calls :
                        /\ sdk_calls[n].call = "create_session"
                        /\ sdk_calls[n].result = "ok"})

InitMemoryTest ==
    /\ script = "create_session_and_test_memory"
    /\ step = "services"
    /\ status = "running"
    /\ sdk_calls = <<>>
    /\ printed = <<>>
    /\ environ = EmptyDict
    /\ dirs = {}
    /\ files = EmptyDict
    /\ locals = EmptyDict

MemoryTesting(at) ==
    /\ script = "create_session_and_test_memory"
    /\ status = "running"
    /\ step = at

\* The awaited call of step at has begun and has not completed.
Awaited(at) ==
    /\ script = "create_session_and_test_memory"
    /\ status = "awaiting"
    /\ step = at

\* The exception of a call reaches main's except block, lines 338-341.
MainCatches(call, arg) ==
    /\ sdk_calls' = Called(call, "raised", arg)
    /\ printed' = Append(printed, "Unexpected error")
    /\ status' = "returned"
    /\ UNCHANGED <<script, step, environ, dirs, files, locals>>

\* A call that is not awaited and returns nothing the script uses.
SetupCall(call, next) ==
    \/ /\ sdk_calls' = Called(call, "ok", 0)
       /\ step' = next
       /\ UNCHANGED <<script, status, printed, environ, dirs, files, locals>>
    \/ MainCatches(call, 0)

\* The awaited call, mutated: the coroutine does not wait for it
\* (the call is left to run as a task).
BeginCallNoAwait(call, arg) ==
    /\ sdk_calls' = Called(call, "begin", arg)
    /\ UNCHANGED <<script, step, status, printed, environ, dirs, files,
                   locals>>

\* The awaited call begins.
BeginCall(call, arg) ==
    /\ sdk_calls' = Called(call, "begin", arg)
    /\ status' = "awaiting"
    /\ UNCHANGED <<script, step, printed, environ, dirs, files, locals>>

\* The awaited call completes and the coroutine goes on at next.
CompleteCall(call, arg, next) ==
    \/ /\ sdk_calls' = Called(call, "ok", arg)
       /\ status' = "running"
       /\ step' = next
       /\ UNCHANGED <<script, printed, environ, dirs, files, locals>>
    \/ MainCatches(call, arg)

\* Lines 66-101: the services, the agent and the runner are constructed.
MemTestServices ==
    /\ MemoryTesting("services")
    /\ SetupCall("VertexAiSessionService", "memory_service")
    /\ UNCHANGED <<citation_vars, pipeline_vars>>

MemTestMemoryService ==
    /\ MemoryTesting("memory_service")
    /\ SetupCall("VertexAiMemoryBankService", "runner")
    /\ UNCHANGED <<citation_vars, pipeline_vars>>

MemTestRunner ==
    /\ MemoryTesting("runner")
    /\ SetupCall("Runner", "create_session")
    /\ UNCHANGED <<citation_vars, pipeline_vars>>

\* Lines 105-112.
MemTestCreateSession ==
    /\ MemoryTesting("create_session")
    /\ BeginCall("create_session", 0)
    /\ UNCHANGED <<citation_vars, pipeline_vars>>

MemTestSessionCreated ==
    /\ Awaited("create_session")
    /\ \/ /\ sdk_calls' = Called("create_session", "ok", NewSessionId)
          /\ locals' = Assign(Assign(locals, "session_id", NewSessionId),
                              "i", 1)
          /\ status' = "running"
          /\ step' = "turn"
          /\ UNCHANGED <<script, printed, environ, dirs, files>>
       \/ MainCatches("create_session", 0)
    /\ UNCHANGED <<citation_vars, pipeline_vars>>

\* Lines 128-147: one turn of the conversation.
MemTestTurn ==
    /\ MemoryTesting("turn")
    /\ BeginCall("conversation_runner.run_async", locals.session_id)
    /\ UNCHANGED <<citation_vars, pipeline_vars>>

MemTestTurnDone ==
    /\ Awaited("turn")
    /\ \/ /\ sdk_calls' = Called("conversation_runner.run_async", "ok", locals.session_id)
          /\ locals' = Assign(locals, "i", locals.i + 1)
          /\ status' = "running"
          /\ step' = IF locals.i = Len(conversation_turns)
                     THEN "get_session" ELSE "turn"
          /\ UNCHANGED <<script, printed, environ, dirs, files>>
       \/ MainCatches("conversation_runner.run_async", locals.session_id)
    /\ UNCHANGED <<citation_vars, pipeline_vars>>

\* Lines 161-165.
MemTestGetSession ==
    /\ MemoryTesting("get_session")
    /\ BeginCall("get_session", locals.session_id)
    /\ UNCHANGED <<citation_vars, pipeline_vars>>

MemTestGotSession ==
    /\ Awaited("get_session")
    /\ \/ /\ sdk_calls' = Called("get_session", "ok", locals.session_id)
          /\ locals' = Assign(locals, "completed_session", locals.session_id)
          /\ status' = "running"
          /\ step' = "add_session_to_memory"
          /\ UNCHANGED <<script, printed, environ, dirs, files>>
       \/ MainCatches("get_session", locals.session_id)
    /\ UNCHANGED <<citation_vars, pipeline_vars>>

\* Line 169.
MemTestAddSession ==
    /\ MemoryTesting("add_session_to_memory")
    /\ BeginCall("add_session_to_memory", locals.completed_session)
    /\ UNCHANGED <<citation_vars, pipeline_vars>>

MemTestSessionAdded ==
    /\ Awaited("add_session_to_memory")
    /\ CompleteCall("add_session_to_memory", locals.completed_session,
                    "sleep")
    /\ UNCHANGED <<citation_vars, pipeline_vars>>

\* Line 178: await asyncio.sleep(5).
MemTestSleep ==
    /\ MemoryTesting("sleep")
    /\ BeginCall("sleep", 5)
    /\ UNCHANGED <<citation_vars, pipeline_vars>>

MemTestSlept ==
    /\ Awaited("sleep")
    /\ sdk_calls' = Called("sleep", "ok", 5)
    /\ status' = "running"
    /\ step' = "search_runner"
    /\ UNCHANGED <<script, printed, environ, dirs, files, locals>>
    /\ UNCHANGED <<citation_vars, pipeline_vars>>

\* Lines 189-206: the search agent and its runner are constructed.
MemTestSearchRunner ==
    /\ MemoryTesting("search_runner")
    /\ \/ /\ sdk_calls' = Called("Runner", "ok", 0)
          /\ locals' = Assign(locals, "q", 1)
          /\ step' = "search_session"
          /\ UNCHANGED <<script, status, printed, environ, dirs, files>>
       \/ MainCatches("Runner", 0)
    /\ UNCHANGED <<citation_vars, pipeline_vars>>

\* Lines 221-225: a session is created for the query.
MemTestSearchSession ==
    /\ MemoryTesting("search_session")
    /\ BeginCall("create_session", 0)
    /\ UNCHANGED <<citation_vars, pipeline_vars>>

MemTestSearchSessionCreated ==
    /\ Awaited("search_session")
    /\ \/ /\ sdk_calls' = Called("create_session", "ok", NewSessionId)
          /\ locals' = Assign(locals, "search_session", NewSessionId)
          /\ status' = "running"
          /\ step' = "query"
          /\ UNCHANGED <<script, printed, environ, dirs, files>>
       \/ MainCatches("create_session", 0)
    /\ UNCHANGED <<citation_vars, pipeline_vars>>

\* Lines 228-245: the query is run in that session.
MemTestQuery ==
    /\ MemoryTesting("query")
    /\ BeginCall("search_runner.run_async", locals.search_session)
    /\ UNCHANGED <<citation_vars, pipeline_vars>>

MemTestQueryDone ==
    /\ Awaited("query")
    /\ CompleteCall("search_runner.run_async", locals.search_session, "pause")
    /\ UNCHANGED <<citation_vars, pipeline_vars>>

\* Line 248: await asyncio.sleep(1), then the next query if there is one.
MemTestPause ==
    /\ MemoryTesting("pause")
    /\ BeginCall("sleep", 1)
    /\ UNCHANGED <<citation_vars, pipeline_vars>>

MemTestPaused ==
    /\ Awaited("pause")
    /\ sdk_calls' = Called("sleep", "ok", 1)
    /\ locals' = Assign(locals, "q", locals.q + 1)
    /\ status' = "running"
    /\ step' = IF locals.q = Len(test_queries)
               THEN "retrieve_memories" ELSE "search_session"
    /\ UNCHANGED <<script, printed, environ, dirs, files>>
    /\ UNCHANGED <<citation_vars, pipeline_vars>>

\* Lines 258-303: the direct retrieval, in a try block of its own.
MemTestRetrieveMemories ==
    /\ MemoryTesting("retrieve_memories")
    /\ \/ /\ sdk_calls' = Called("retrieve_memories", "ok", 0)
          /\ UNCHANGED printed
       \/ /\ sdk_calls' = Called("retrieve_memories", "raised", 0)
          /\ printed' = Append(printed, "Memory retrieval not available")
    /\ step' = "return"
    /\ UNCHANGED <<script, status, environ, dirs, files, locals>>
    /\ UNCHANGED <<citation_vars, pipeline_vars>>

\* Lines 309-319 and 325-334.
MemTestReturn ==
    /\ MemoryTesting("return")
    /\ status' = "returned"
    /\ UNCHANGED <<script, step, sdk_calls, printed, environ, dirs, files,
                   locals>>
    /\ UNCHANGED <<citation_vars, pipeline_vars>>

----------------------------------------------------------------------------
(* The scripts as one state machine: one of them is run.                   *)

InitScripts ==
    /\ NoAgentRun
    /\ \/ InitDeploy
       \/ InitApiTest
       \/ InitIngest
       \/ InitMemoryTest

NextScripts ==
    \/ DeployGetConfig
    \/ DeployCreateBucket
    \/ DeployVertexaiInit
    \/ DeployReadRequirements
    \/ DeployCreateApp
    \/ DeployListAgents
    \/ DeployCreateOrUpdate
    \/ DeployMkdir
    \/ DeployWriteMetadata
    \/ DeployReturn
    \/ ApiTestInit
    \/ ApiTestClient
    \/ ApiTestSessionsClient
    \/ ApiTestCreateSession
    \/ ApiTestAppendEvent
    \/ ApiTestGenerateMemories
    \/ ApiTestSleep
    \/ ApiTestRetrieveMemories
    \/ ApiTestCreateMemory
    \/ ApiTestReturn
    \/ IngestInit
    \/ IngestMemoryService
    \/ IngestSessionService
    \/ IngestAddSession
    \/ IngestSleep
    \/ IngestSearchMemory
    \/ IngestReturn
    \/ MemTestServices
    \/ MemTestMemoryService
    \/ MemTestRunner
    \/ MemTestCreateSession
    \/ MemTestSessionCreated
    \/ MemTestTurn
    \/ MemTestTurnDone
    \/ MemTestGetSession
    \/ MemTestGotSession
    \/ MemTestAddSession
    \/ MemTestSessionAdded
    \/ MemTestSleep
    \/ MemTestSlept
    \/ MemTestSearchRunner
    \/ MemTestSearchSession
    \/ MemTestSearchSessionCreated
    \/ MemTestQuery
    \/ MemTestQueryDone
    \/ MemTestPause
    \/ MemTestPaused
    \/ MemTestRetrieveMemories
    \/ MemTestReturn

SpecScripts == InitScripts /\ [][NextScripts]_vars

----------------------------------------------------------------------------
(* The service builders of MemoryEnabledAgentEngineApp                     *)
(* (app/agent_engine_app.py): the functions that                           *)
(* _create_session_service_builder and _create_memory_service_builder      *)
(* return.  A builder reads the environment when it is called.             *)

\* Python's None; no variable of the environments below has this value.
None == "None"

\* os.environ.get(key): None when the variable is unset.
EnvironGet(key) == Get(environ, key, None)

\* os.environ.get(key, default)
EnvironGetDefault(key, default) == Get(environ, key, default)

\* not x, for x a str or None
Falsy(x) == x = None \/ x = ""

\* The environments a builder is called in: each variable unset, empty or
\* set to one of two values.
BuilderEnvirons ==
    {p @@ l @@ e :
        p \in {EmptyDict} \cup
              {("GOOGLE_CLOUD_PROJECT" :> v) : v \in {"", "proj-a", "proj-b"}},
        l \in {EmptyDict} \cup
              {("GOOGLE_CLOUD_LOCATION" :> v) :
                  v \in {"", "us-central1", "europe-west1"}},
        e \in {EmptyDict} \cup
              {("AGENT_ENGINE_ID" :> v) : v \in {"", "7", "8"}}}

InitBuilder ==
    /\ NoAgentRun
    /\ script \in {"session_service_builder", "memory_service_builder"}
    /\ step = "call"
    /\ status = "running"
    /\ sdk_calls = <<>>
    /\ printed = <<>>
    /\ environ \in BuilderEnvirons
    /\ dirs = {}
    /\ files = EmptyDict
    /\ locals = EmptyDict

\* A builder, mutated: the project is not checked.
BuildServiceUnchecked(service) ==
    /\ sdk_calls' =
          Called(service, "ok",
                 [project |-> EnvironGet("GOOGLE_CLOUD_PROJECT"),
                  location |-> EnvironGetDefault("GOOGLE_CLOUD_LOCATION",
                                                 "us-central1"),
                  agent_engine_id |-> EnvironGet("AGENT_ENGINE_ID")])
    /\ status' = "returned"
    /\ UNCHANGED locals

\* Lines 59-72 and 79-92: the three variables are read, ValueError is
\* raised when there is no project, and the service is constructed.
BuildService(service) ==
    IF Falsy(EnvironGet("GOOGLE_CLOUD_PROJECT"))
    THEN /\ locals' = Assign(locals, "exception", "ValueError")
         /\ status' = "crashed"
         /\ UNCHANGED sdk_calls
    ELSE /\ sdk_calls' =
               Called(service, "ok",
                      [project |-> EnvironGet("GOOGLE_CLOUD_PROJECT"),
                       location |->
                          EnvironGetDefault("GOOGLE_CLOUD_LOCATION",
                                            "us-central1"),
                       agent_engine_id |-> EnvironGet("AGENT_ENGINE_ID")])
         /\ status' = "returned"
         /\ UNCHANGED locals

\* Lines 58-72.
session_service_builder ==
    /\ script = "session_service_builder"
    /\ status = "running"
    /\ BuildService("VertexAiSessionService")
    /\ UNCHANGED <<script, step, printed, environ, dirs, files>>
    /\ UNCHANGED <<citation_vars, pipeline_vars>>

\* Lines 78-92.
memory_service_builder ==
    /\ script = "memory_service_builder"
    /\ status = "running"
    /\ BuildService("VertexAiMemoryBankService")
    /\ UNCHANGED <<script, step, printed, environ, dirs, files>>
    /\ UNCHANGED <<citation_vars, pipeline_vars>>

NextBuilder ==
    \/ session_service_builder
    \/ memory_service_builder

SpecBuilder == InitBuilder /\ [][NextBuilder]_vars

----------------------------------------------------------------------------
(* The session verification scripts: direct_session_test.py,               *)
(* verify_sessions.py, verify_sessions_api.py and simple_session_test.py   *)
(* (all in app/).  Each looks for the deployment metadata in three places  *)
(* and then talks to the deployed agent.                                   *)

\* Path("../logs/deployment_metadata.json")
ParentLogs == "../logs/deployment_metadata.json"

\* Path("logs/deployment_metadata.json")
CwdLogs == "logs/deployment_metadata.json"

\* Path(__file__).parent.parent / "logs" / "deployment_metadata.json"
PackageLogs == "/repo/logs/deployment_metadata.json"

\* The three candidate paths, in the order of the list.
metadata_locations == <<ParentLogs, CwdLogs, PackageLogs>>

\* JSON objects a metadata file can hold: two complete ones, one without
\* agent_engine_id and location, and one with an empty agent_engine_id.
StoredMetadata ==
    {[agent_engine_id |-> "7", project |-> "proj-a",
      location |-> "us-central1"],
     [agent_engine_id |-> "8", project |-> "proj-b",
      location |-> "europe-west1"],
     [project |-> "proj-a"],
     [agent_engine_id |-> "", project |-> "proj-a",
      location |-> "us-central1"]}

\* The file systems a script is run in: each candidate path is absent or
\* holds one of the objects.
MetadataFileSystems ==
    {a @@ b @@ c :
        a \in {EmptyDict} \cup {(ParentLogs :> m) : m \in StoredMetadata},
        b \in {EmptyDict} \cup {(CwdLogs :> m) : m \in StoredMetadata},
        c \in {EmptyDict} \cup {(PackageLogs :> m) : m \in StoredMetadata}}

\* The environments of direct_session_test.
DirectEnvirons ==
    {l @@ e :
        l \in {EmptyDict} \cup
              {("GOOGLE_CLOUD_LOCATION" :> v) :
                  v \in {"us-central1", "europe-west1"}},
        e \in {EmptyDict} \cup {("AGENT_ENGINE_ID" :> "7")}}

\* A printed line: its label and the value formatted into it.
Line(text, value) == [text |-> text, value |-> value]

\* metadata.get(key)
MetadataGet(metadata, key) == Get(metadata, key, None)

InitVerify ==
    /\ NoAgentRun
    /\ script \in {"direct_session_test", "verify_session_storage",
                   "verify_session_with_api", "simple_session_test"}
    /\ step = "start"
    /\ status = "running"
    /\ sdk_calls = <<>>
    /\ printed = <<>>
    /\ environ \in IF script = "direct_session_test" THEN DirectEnvirons
                   ELSE {EmptyDict}
    /\ dirs = {}
    /\ files \in MetadataFileSystems
    /\ locals = EmptyDict

Verifying(name, at) ==
    /\ script = name
    /\ status = "running"
    /\ step = at

\* return, or the end of the function.
Returns ==
    /\ status' = "returned"
    /\ UNCHANGED <<script, step, environ, dirs, files, locals>>

\* try: <call> except Exception as e: print(...) with the function left
\* after the message (by return, or because nothing follows the handler).
CaughtCallReturns(call, arg, message) ==
    /\ sdk_calls' = Called(call, "raised", arg)
    /\ printed' = Append(printed, Line(message, ""))
    /\ Returns

(* direct_session_test.py *)

\* Lines 25-35: project and location are read from the environment and the
\* search starts.
DirectGetConfiguration ==
    /\ Verifying("direct_session_test", "start")
    /\ locals' = [project |-> EnvironGetDefault("GOOGLE_CLOUD_PROJECT",
                                                "agentlocker-466121"),
                  location |-> EnvironGetDefault("GOOGLE_CLOUD_LOCATION",
                                                 "us-central1"),
                  agent_engine_id |-> None,
                  i |-> 1]
    /\ step' = "lookup"
    /\ UNCHANGED <<script, status, sdk_calls, printed, environ, dirs, files>>
    /\ UNCHANGED <<citation_vars, pipeline_vars>>

\* Lines 36-37: one iteration of "for location in metadata_locations".
\* The loop variable is the function's variable location.
DirectLookup ==
    /\ Verifying("direct_session_test", "lookup")
    /\ sdk_calls' = Called("exists", "ok", metadata_locations[locals.i])
    /\ IF metadata_locations[locals.i] \in DOMAIN files
       THEN /\ locals' = Assign(locals, "location",
                                metadata_locations[locals.i])
            /\ step' = "read"
       ELSE /\ locals' = Assign(Assign(locals, "location",
                                       metadata_locations[locals.i]),
                                "i", locals.i + 1)
            /\ step' = IF locals.i = Len(metadata_locations)
                       THEN "resolve" ELSE "lookup"
    /\ UNCHANGED <<script, status, printed, environ, dirs, files>>
    /\ UNCHANGED <<citation_vars, pipeline_vars>>

\* Lines 38-41: the file is read and the loop is left.
DirectRead ==
    /\ Verifying("direct_session_test", "read")
    /\ \/ /\ sdk_calls' = Called("open", "ok", metadata_locations[locals.i])
          /\ locals' = Assign(locals, "agent_engine_id",
                              MetadataGet(files[metadata_locations[locals.i]],
                                          "agent_engine_id"))
          /\ step' = "resolve"
          /\ UNCHANGED <<script, status, printed, environ, dirs, files>>
       \/ Propagates("open", metadata_locations[locals.i])
    /\ UNCHANGED <<citation_vars, pipeline_vars>>

\* Lines 43-48: the fallback for the id, and the three lines printed.
DirectResolve ==
    /\ Verifying("direct_session_test", "resolve")
    /\ \E id \in {IF Falsy(locals.agent_engine_id)
                  THEN EnvironGetDefault("AGENT_ENGINE_ID",
                                         "5717733143318888448")
                  ELSE locals.agent_engine_id} :
          /\ locals' = Assign(locals, "agent_engine_id", id)
          /\ printed' = printed \o <<Line("Project", locals.project),
                                     Line("Location", locals.location),
                                     Line("Agent Engine ID", id)>>
    /\ step' = "VertexAiSessionService"
    /\ UNCHANGED <<script, status, sdk_calls, environ, dirs, files>>
    /\ UNCHANGED <<citation_vars, pipeline_vars>>

\* Lines 51-54.
DirectSessionService ==
    /\ Verifying("direct_session_test", "VertexAiSessionService")
    /\ PlainCall("VertexAiSessionService",
                 [project |-> locals.project, location |-> locals.location],
                 "create_session")
    /\ UNCHANGED <<citation_vars, pipeline_vars>>

\* Lines 56-110: a call of the try block; the handler prints and the
\* function ends.
DirectCall(call, arg, next) ==
    \/ /\ sdk_calls' = Called(call, "ok", arg)
       /\ step' = next
       /\ UNCHANGED <<script, status, printed, environ, dirs, files, locals>>
    \/ CaughtCallReturns(call, arg, "Session service test failed")

\* Lines 59-69.
DirectCreateSession ==
    /\ Verifying("direct_session_test", "create_session")
    /\ DirectCall("create_session", locals.agent_engine_id, "get_session")
    /\ UNCHANGED <<citation_vars, pipeline_vars>>

\* Lines 73-79.
DirectGetSession ==
    /\ Verifying("direct_session_test", "get_session")
    /\ DirectCall("get_session", locals.agent_engine_id, "list_sessions")
    /\ UNCHANGED <<citation_vars, pipeline_vars>>

\* Lines 83-89.
DirectListSessions ==
    /\ Verifying("direct_session_test", "list_sessions")
    /\ DirectCall("list_sessions", locals.agent_engine_id, "return")
    /\ UNCHANGED <<citation_vars, pipeline_vars>>

\* Lines 96-103.
DirectReturn ==
    /\ Verifying("direct_session_test", "return")
    /\ printed' = Append(printed,
                         Line("SESSION SERVICE VERIFICATION COMPLETE", ""))
    /\ Returns
    /\ UNCHANGED sdk_calls
    /\ UNCHANGED <<citation_vars, pipeline_vars>>

(* The metadata lookup of verify_sessions.py, verify_sessions_api.py and   *)
(* simple_session_test.py: the same lines in the three files.              *)

\* metadata_file = None before the loop.
StartLookup ==
    /\ step = "start"
    /\ locals' = [metadata_file |-> None, i |-> 1]
    /\ step' = "lookup"
    /\ UNCHANGED <<script, status, sdk_calls, printed, environ, dirs, files>>

\* One iteration of the loop, mutated: the search goes on after a file was
\* found, so that the last existing one is kept.
FindMetadataFileLast ==
    /\ step = "lookup"
    /\ sdk_calls' = Called("exists", "ok", metadata_locations[locals.i])
    /\ locals' = Assign(IF metadata_locations[locals.i] \in DOMAIN files
                        THEN Assign(locals, "metadata_file",
                                    metadata_locations[locals.i])
                        ELSE locals,
                        "i", locals.i + 1)
    /\ step' = IF locals.i = Len(metadata_locations)
               THEN "found" ELSE "lookup"
    /\ UNCHANGED <<script, status, printed, environ, dirs, files>>

\* One iteration of "for location in metadata_locations": the first path
\* that exists becomes metadata_file and ends the loop.
FindMetadataFile ==
    /\ step = "lookup"
    /\ sdk_calls' = Called("exists", "ok", metadata_locations[locals.i])
    /\ IF metadata_locations[locals.i] \in DOMAIN files
       THEN /\ locals' = Assign(locals, "metadata_file",
                                metadata_locations[locals.i])
            /\ step' = "found"
       ELSE /\ locals' = Assign(locals, "i", locals.i + 1)
            /\ step' = IF locals.i = Len(metadata_locations)
                       THEN "found" ELSE "lookup"
    /\ UNCHANGED <<script, status, printed, environ, dirs, files>>

\* "if not metadata_file": the message and the return; otherwise the file
\* is read next.
CheckMetadataFile ==
    /\ step = "found"
    /\ IF locals.metadata_file = None
       THEN /\ printed' = Append(printed,
                                 Line("No deployment metadata found", ""))
            /\ Returns
       ELSE /\ step' = "read"
            /\ UNCHANGED <<script, status, printed, environ, dirs, files,
                           locals>>
    /\ UNCHANGED sdk_calls

\* The file is opened and parsed, the three values are taken from it and
\* printed.
ReadMetadataFile(next) ==
    /\ step = "read"
    /\ \/ /\ sdk_calls' = Called("open", "ok", locals.metadata_file)
          /\ \E metadata \in {files[locals.metadata_file]} :
                /\ locals' =
                      [agent_engine_id |->
                          MetadataGet(metadata, "agent_engine_id"),
                       project |-> MetadataGet(metadata, "project"),
                       location |-> MetadataGet(metadata, "location")]
                      @@ locals
                /\ printed' = printed \o
                      <<Line("Agent Engine ID",
                             MetadataGet(metadata, "agent_engine_id")),
                        Line("Project", MetadataGet(metadata, "project")),
                        Line("Location", MetadataGet(metadata, "location"))>>
          /\ step' = next
          /\ UNCHANGED <<script, status, environ, dirs, files>>
       \/ Propagates("open", locals.metadata_file)

(* verify_sessions.py *)

\* Lines 25-31.
VerifyStorageStart ==
    /\ Verifying("verify_session_storage", "start")
    /\ StartLookup
    /\ UNCHANGED <<citation_vars, pipeline_vars>>

\* Lines 32-35.
VerifyStorageLookup ==
    /\ Verifying("verify_session_storage", "lookup")
    /\ FindMetadataFile
    /\ UNCHANGED <<citation_vars, pipeline_vars>>

\* Lines 37-42.
VerifyStorageCheck ==
    /\ Verifying("verify_session_storage", "found")
    /\ CheckMetadataFile
    /\ UNCHANGED <<citation_vars, pipeline_vars>>

\* Lines 44-53.
VerifyStorageRead ==
    /\ Verifying("verify_session_storage", "read")
    /\ ReadMetadataFile("aiplatform.init")
    /\ UNCHANGED <<citation_vars, pipeline_vars>>

\* Line 56.
VerifyStorageInit ==
    /\ Verifying("verify_session_storage", "aiplatform.init")
    /\ PlainCall("aiplatform.init",
                 [project |-> locals.project, location |-> locals.location],
                 "ReasoningEngine")
    /\ UNCHANGED <<citation_vars, pipeline_vars>>

\* Lines 59-66.
VerifyStorageConnect ==
    /\ Verifying("verify_session_storage", "ReasoningEngine")
    /\ \/ /\ sdk_calls' = Called("ReasoningEngine", "ok",
                                 locals.agent_engine_id)
          /\ locals' = Assign(locals, "query", 1)
          /\ step' = "agent.operation"
          /\ UNCHANGED <<script, status, printed, environ, dirs, files>>
       \/ CaughtCallReturns("ReasoningEngine", locals.agent_engine_id,
                            "Failed to connect to agent")
    /\ UNCHANGED <<citation_vars, pipeline_vars>>

\* The session ids of the three operation requests, lines 78-81, 92-95 and
\* 113-116.
operation_session_ids ==
    <<"test_session_verification_001", "test_session_verification_001",
      "different_session_002">>

\* Lines 71-140: the three calls of agent.operation in one try block.
VerifyStorageOperation ==
    /\ Verifying("verify_session_storage", "agent.operation")
    /\ \/ /\ sdk_calls' = Called("agent.operation", "ok",
                                 operation_session_ids[locals.query])
          /\ locals' = Assign(locals, "query", locals.query + 1)
          /\ step' = IF locals.query = Len(operation_session_ids)
                     THEN "return" ELSE "agent.operation"
          /\ UNCHANGED <<script, status, printed, environ, dirs, files>>
       \/ CaughtCallReturns("agent.operation",
                            operation_session_ids[locals.query],
                            "Error during verification")
    /\ UNCHANGED <<citation_vars, pipeline_vars>>

\* Lines 129-132.
VerifyStorageReturn ==
    /\ Verifying("verify_session_storage", "return")
    /\ printed' = Append(printed, Line("VERIFICATION COMPLETE", ""))
    /\ Returns
    /\ UNCHANGED sdk_calls
    /\ UNCHANGED <<citation_vars, pipeline_vars>>

(* simple_session_test.py *)

\* Lines 25-31.
SimpleTestStart ==
    /\ Verifying("simple_session_test", "start")
    /\ StartLookup
    /\ UNCHANGED <<citation_vars, pipeline_vars>>

\* Lines 32-35.
SimpleTestLookup ==
    /\ Verifying("simple_session_test", "lookup")
    /\ FindMetadataFile
    /\ UNCHANGED <<citation_vars, pipeline_vars>>

\* Lines 37-39.
SimpleTestCheck ==
    /\ Verifying("simple_session_test", "found")
    /\ CheckMetadataFile
    /\ UNCHANGED <<citation_vars, pipeline_vars>>

\* Lines 41-51.
SimpleTestRead ==
    /\ Verifying("simple_session_test", "read")
    /\ ReadMetadataFile("vertexai.init")
    /\ UNCHANGED <<citation_vars, pipeline_vars>>

\* Line 54.
SimpleTestInit ==
    /\ Verifying("simple_session_test", "vertexai.init")
    /\ PlainCall("vertexai.init",
                 [project |-> locals.project, location |-> locals.location],
                 "agent_engines.list")
    /\ UNCHANGED <<citation_vars, pipeline_vars>>

\* Lines 56-108: the agents named astra are listed; the first one is
\* described, or their absence is reported, and the function ends.
SimpleTestListAgents ==
    /\ Verifying("simple_session_test", "agent_engines.list")
    /\ \/ /\ sdk_calls' = Called("agent_engines.list", "ok",
                                 "display_name=astra")
          /\ \E agents \in {<<>>, <<"astra">>} :
                printed' = Append(printed,
                                  IF agents = <<>>
                                  THEN Line("No agents found", "astra")
                                  ELSE Line("Found agent", agents[1]))
          /\ Returns
       \/ CaughtCallReturns("agent_engines.list", "display_name=astra",
                            "Error")
    /\ UNCHANGED <<citation_vars, pipeline_vars>>

(* verify_sessions_api.py *)

\* Lines 25-31.
VerifyApiStart ==
    /\ Verifying("verify_session_with_api", "start")
    /\ StartLookup
    /\ UNCHANGED <<citation_vars, pipeline_vars>>

\* Lines 32-35.
VerifyApiLookup ==
    /\ Verifying("verify_session_with_api", "lookup")
    /\ FindMetadataFile
    /\ UNCHANGED <<citation_vars, pipeline_vars>>

\* Lines 37-39.
VerifyApiCheck ==
    /\ Verifying("verify_session_with_api", "found")
    /\ CheckMetadataFile
    /\ UNCHANGED <<citation_vars, pipeline_vars>>

\* Lines 41-50.
VerifyApiRead ==
    /\ Verifying("verify_session_with_api", "read")
    /\ ReadMetadataFile("subprocess.run")
    /\ UNCHANGED <<citation_vars, pipeline_vars>>

\* Lines 53-66: gcloud auth print-access-token.
VerifyApiAccessToken ==
    /\ Verifying("verify_session_with_api", "subprocess.run")
    /\ \/ /\ sdk_calls' = Called("subprocess.run", "ok", "gcloud")
          /\ locals' = Assign(locals, "access_token", "token")
          /\ printed' = Append(printed, Line("Got access token", ""))
          /\ step' = "request1"
          /\ UNCHANGED <<script, status, environ, dirs, files>>
       \/ CaughtCallReturns("subprocess.run", "gcloud",
                            "Failed to get access token")
    /\ UNCHANGED <<citation_vars, pipeline_vars>>

\* The status codes a query is answered with.
StatusCodes == {200, 403, 500}

\* requests.post(query_url, headers=headers, json=request): the request is
\* recorded with its session id; the call returns a response, whose body
\* may fail to parse when the status is 200, or raises.
Post(session_id, response, replied(_, _), failed) ==
    \/ \E status_code \in StatusCodes, parses \in BOOLEAN :
          /\ sdk_calls' = Called("requests.post", "ok", session_id)
          /\ locals' = Assign(locals, response,
                              [status_code |-> status_code,
                               parses |-> parses])
          /\ replied(status_code, parses)
    \/ /\ sdk_calls' = Called("requests.post", "raised", session_id)
       /\ UNCHANGED locals
       /\ failed

\* The handler of a query's try block: the message, and the script goes on
\* with the next step.
RequestFailed(next) ==
    /\ printed' = Append(printed, Line("Request failed", ""))
    /\ step' = next
    /\ UNCHANGED <<script, status, environ, dirs, files>>

\* The handler of the first query's try block: the message and the return.
FirstRequestFailed ==
    /\ printed' = Append(printed, Line("Request failed", ""))
    /\ status' = "returned"
    /\ UNCHANGED <<script, step, environ, dirs, files>>

\* Lines 92-99, mutated: the script goes on after a first query that was
\* not answered with 200.
FirstRepliedGoesOn(status_code, parses) ==
    /\ printed' = Append(printed, Line("First interaction", ""))
    /\ step' = "request2"
    /\ UNCHANGED <<script, status, environ, dirs, files>>

\* Lines 92-99: 200 with a body that parses lets the script go on; any
\* other status is reported and the function returns; a body that does not
\* parse raises into the handler of lines 100-102.
FirstReplied(status_code, parses) ==
    IF status_code = 200 /\ parses
    THEN /\ printed' = Append(printed,
                              Line("First interaction successful", ""))
         /\ step' = "request2"
         /\ UNCHANGED <<script, status, environ, dirs, files>>
    ELSE IF status_code = 200
    THEN FirstRequestFailed
    ELSE /\ printed' = Append(printed,
                              Line("First interaction failed", ""))
         /\ status' = "returned"
         /\ UNCHANGED <<script, step, environ, dirs, files>>

\* Lines 118-135 and 153-163: whatever the answer, a line is printed and
\* the script goes on.
LaterReplied(message, next) ==
    /\ printed' = Append(printed, message)
    /\ step' = next
    /\ UNCHANGED <<script, status, environ, dirs, files>>

\* Lines 81-102.
VerifyApiRequest1 ==
    /\ Verifying("verify_session_with_api", "request1")
    /\ Post("api_test_session_001", "response1", FirstReplied,
            FirstRequestFailed)
    /\ UNCHANGED <<citation_vars, pipeline_vars>>

\* Lines 107-137.
VerifyApiRequest2 ==
    /\ Verifying("verify_session_with_api", "request2")
    /\ Post("api_test_session_001", "response2",
            LAMBDA status_code, parses :
               LaterReplied(IF status_code = 200 /\ parses
                            THEN Line("Second interaction answered", "")
                            ELSE IF status_code = 200
                            THEN Line("Request failed", "")
                            ELSE Line("Second interaction failed", ""),
                            "request3"),
            RequestFailed("request3"))
    /\ UNCHANGED <<citation_vars, pipeline_vars>>

\* Lines 142-165.
VerifyApiRequest3 ==
    /\ Verifying("verify_session_with_api", "request3")
    /\ Post("api_test_session_002", "response3",
            LAMBDA status_code, parses :
               LaterReplied(IF status_code = 200 /\ parses
                            THEN Line("Third interaction answered", "")
                            ELSE IF status_code = 200
                            THEN Line("Request failed", "")
                            ELSE Line("Third interaction failed", ""),
                            "return"),
            RequestFailed("return"))
    /\ UNCHANGED <<citation_vars, pipeline_vars>>

\* Lines 167-172.
VerifyApiReturn ==
    /\ Verifying("verify_session_with_api", "return")
    /\ printed' = Append(printed, Line("VERIFICATION COMPLETE", ""))
    /\ Returns
    /\ UNCHANGED sdk_calls
    /\ UNCHANGED <<citation_vars, pipeline_vars>>

NextVerify ==
    \/ DirectGetConfiguration
    \/ DirectLookup
    \/ DirectRead
    \/ DirectResolve
    \/ DirectSessionService
    \/ DirectCreateSession
    \/ DirectGetSession
    \/ DirectListSessions
    \/ DirectReturn
    \/ VerifyStorageStart
    \/ VerifyStorageLookup
    \/ VerifyStorageCheck
    \/ VerifyStorageRead
    \/ VerifyStorageInit
    \/ VerifyStorageConnect
    \/ VerifyStorageOperation
    \/ VerifyStorageReturn
    \/ SimpleTestStart
    \/ SimpleTestLookup
    \/ SimpleTestCheck
    \/ SimpleTestRead
    \/ SimpleTestInit
    \/ SimpleTestListAgents
    \/ VerifyApiStart
    \/ VerifyApiLookup
    \/ VerifyApiCheck
    \/ VerifyApiRead
    \/ VerifyApiAccessToken
    \/ VerifyApiRequest1
    \/ VerifyApiRequest2
    \/ VerifyApiRequest3
    \/ VerifyApiReturn

SpecVerify == InitVerify /\ [][NextVerify]_vars

----------------------------------------------------------------------------
(* SessionTester (app/test_sessions.py): the agent engine id is resolved   *)
(* when the tester is constructed, and run_all_tests runs the three tests. *)
(* The ids are strings whose characters matter: a sequence of              *)
(* one-character strings each.                                             *)

\* None where a str is expected: no sequence of characters equals it.
NoneStr == <<"None">>

\* bool(x) for x a str or None
TruthyStr(x) == x # NoneStr /\ x # <<>>

\* The characters str.strip removes.
StripChars == {" ", "\t", "\n"}

\* "AGENT_ENGINE_ID="
EngineIdPrefix ==
    <<"A", "G", "E", "N", "T", "_", "E", "N", "G", "I", "N", "E", "_",
      "I", "D", "=">>

\* line.startswith(prefix)
StartsWith(line, prefix) ==
    /\ Len(line) >= Len(prefix)
    /\ SubSeq(line, 1, Len(prefix)) = prefix

\* line.split(sep, 1)[1]: what follows the first sep of a line that has one.
RECURSIVE AfterFirst(_, _)
AfterFirst(line, sep) ==
    IF line = <<>> THEN <<>>
    ELSE IF line[1] = sep THEN Tail(line)
    ELSE AfterFirst(Tail(line), sep)

RECURSIVE LStrip(_)
LStrip(s) ==
    IF s # <<>> /\ s[1] \in StripChars THEN LStrip(Tail(s)) ELSE s

RECURSIVE RStrip(_)
RStrip(s) ==
    IF s # <<>> /\ s[Len(s)] \in StripChars
    THEN RStrip(SubSeq(s, 1, Len(s) - 1)) ELSE s

\* str.strip()
Strip(s) == RStrip(LStrip(s))

\* Path(".env.production")
prod_env == ".env.production"

\* Lines 70-75: the lines of the file are read in order and the first one
\* that starts with AGENT_ENGINE_ID= gives the result; None when no line
\* does.
RECURSIVE ProdEnvEngineId(_)
ProdEnvEngineId(lines) ==
    IF lines = <<>> THEN NoneStr
    ELSE IF StartsWith(lines[1], EngineIdPrefix)
    THEN Strip(AfterFirst(lines[1], "="))
    ELSE ProdEnvEngineId(Tail(lines))

\* Lines 61-67, mutated: the first file that exists ends the search,
\* whatever it holds.
RECURSIVE MetadataEngineIdFirstFile(_)
MetadataEngineIdFirstFile(i) ==
    IF i > Len(metadata_locations) THEN NoneStr
    ELSE IF metadata_locations[i] \in DOMAIN files
    THEN Get(files[metadata_locations[i]], "agent_engine_id", NoneStr)
    ELSE MetadataEngineIdFirstFile(i + 1)

\* Lines 61-67: the candidate paths from the i-th on are tried in order; a
\* file that exists is read, and its agent_engine_id is the result when it
\* is not empty.  None stands for the loop ending without a return.
RECURSIVE MetadataEngineId(_)
MetadataEngineId(i) ==
    IF i > Len(metadata_locations) THEN NoneStr
    ELSE IF /\ metadata_locations[i] \in DOMAIN files
            /\ TruthyStr(Get(files[metadata_locations[i]],
                             "agent_engine_id", NoneStr))
    THEN files[metadata_locations[i]].agent_engine_id
    ELSE MetadataEngineId(i + 1)

\* Lines 47-77: SessionTester._get_agent_engine_id.
get_agent_engine_id ==
    IF TruthyStr(Get(environ, "AGENT_ENGINE_ID", NoneStr))
    THEN environ["AGENT_ENGINE_ID"]
    ELSE IF MetadataEngineId(1) # NoneStr
    THEN MetadataEngineId(1)
    ELSE IF prod_env \in DOMAIN files
    THEN ProdEnvEngineId(files[prod_env])
    ELSE NoneStr

\* The environments of the tester: AGENT_ENGINE_ID unset, empty or set.
TesterEnvirons ==
    {EmptyDict, ("AGENT_ENGINE_ID" :> <<>>), ("AGENT_ENGINE_ID" :> <<"7">>)}

\* What a metadata file can hold: an id, an empty id, or no id at all.
TesterMetadata ==
    {[agent_engine_id |-> <<"8">>, project |-> "proj-a"],
     [agent_engine_id |-> <<"9">>, project |-> "proj-a"],
     [agent_engine_id |-> <<>>, project |-> "proj-a"],
     [project |-> "proj-a"]}

\* Lines of a .env.production file.
LineProject == <<"P", "=", "a", "\n">>
LineEngine5 == EngineIdPrefix \o <<"5", "\n">>
LineEngine6Padded == EngineIdPrefix \o <<" ", "6", "\t", "\n">>
LineEngineEquals == EngineIdPrefix \o <<"a", "=", "b", "\n">>
LineEngineEmpty == EngineIdPrefix \o <<"\n">>
LineCommented == <<"#">> \o EngineIdPrefix \o <<"4", "\n">>

\* The .env.production files: absent, or one of these.
ProdEnvFiles ==
    {<<>>,
     <<LineProject>>,
     <<LineProject, LineEngine5>>,
     <<LineCommented, LineEngine6Padded, LineEngine5>>,
     <<LineEngineEquals>>,
     <<LineEngineEmpty, LineEngine5>>}

TesterFileSystems ==
    {a @@ b @@ c @@ p :
        a \in {EmptyDict} \cup {(ParentLogs :> m) : m \in TesterMetadata},
        b \in {EmptyDict} \cup {(CwdLogs :> m) : m \in TesterMetadata},
        c \in {EmptyDict} \cup {(PackageLogs :> m) : m \in TesterMetadata},
        p \in {EmptyDict} \cup {(prod_env :> lines) : lines \in ProdEnvFiles}}

InitTester ==
    /\ NoAgentRun
    /\ script = "test_sessions"
    /\ step = "__init__"
    /\ status = "running"
    /\ sdk_calls = <<>>
    /\ printed = <<>>
    /\ environ \in TesterEnvirons
    /\ dirs = {}
    /\ files \in TesterFileSystems
    /\ locals = EmptyDict

Testing(at) ==
    /\ script = "test_sessions"
    /\ status = "running"
    /\ step = at

\* Lines 26-28: project, location and the agent engine id.
TesterGetAgentEngineId ==
    /\ Testing("__init__")
    /\ locals' = [project_id |-> "agentlocker-466121",
                  location |-> "us-central1",
                  agent_engine_id |-> get_agent_engine_id]
    /\ step' = "vertexai.init"
    /\ UNCHANGED <<script, status, sdk_calls, printed, environ, dirs, files>>
    /\ UNCHANGED <<citation_vars, pipeline_vars>>

\* Lines 31-34.
TesterVertexaiInit ==
    /\ Testing("vertexai.init")
    /\ PlainCall("vertexai.init", "", "VertexAiSessionService")
    /\ UNCHANGED <<citation_vars, pipeline_vars>>

\* Lines 37-40.
TesterSessionService ==
    /\ Testing("VertexAiSessionService")
    /\ PlainCall("VertexAiSessionService", "", "run_all_tests")
    /\ UNCHANGED <<citation_vars, pipeline_vars>>

\* Lines 182-190: without an id nothing is tested.
TesterRunAllTests ==
    /\ Testing("run_all_tests")
    /\ IF TruthyStr(locals.agent_engine_id)
       THEN /\ step' = "create_session"
            /\ UNCHANGED <<script, status, printed, environ, dirs, files,
                           locals>>
       ELSE /\ printed' = Append(printed, Line("No Agent Engine ID found", ""))
            /\ Returns
    /\ UNCHANGED sdk_calls
    /\ UNCHANGED <<citation_vars, pipeline_vars>>

\* The ids the service gives a new session.
SessionIds == {"session-1", "session-2"}

\* Lines 101-103 and 194-196: test_session_creation returns None and
\* run_all_tests stops.
CreationFailed ==
    /\ printed' = printed \o <<Line("Failed to create session", ""),
                               Line("Stopping tests", "")>>
    /\ Returns

\* Lines 83-99 and 193-198: test_session_creation, and the id of the
\* session it returns.
TesterCreateSession ==
    /\ Testing("create_session")
    /\ \/ \E id \in SessionIds :
             /\ sdk_calls' = Called("create_session", "ok",
                                    locals.agent_engine_id)
             /\ printed' = Append(printed, Line("Session ID", id))
             /\ locals' = Assign(locals, "session_id", id)
             /\ step' = "adk.Runner"
             /\ UNCHANGED <<script, status, environ, dirs, files>>
       \/ /\ sdk_calls' = Called("create_session", "raised",
                                 locals.agent_engine_id)
          /\ CreationFailed
    /\ UNCHANGED <<citation_vars, pipeline_vars>>

\* Lines 147-149, mutated: run_all_tests ends with the update test.
UpdateFailedStops(call, arg) ==
    CaughtCallReturns(call, arg, "Failed to update session")

\* Lines 147-149: the handler of test_session_update; run_all_tests goes on
\* with the persistence test.
UpdateFailed(call, arg) ==
    /\ sdk_calls' = Called(call, "raised", arg)
    /\ printed' = Append(printed, Line("Failed to update session", ""))
    /\ step' = "new_session_service"
    /\ UNCHANGED <<script, status, environ, dirs, files, locals>>

\* A call of the try block of test_session_update.
UpdateCall(call, arg, next) ==
    \/ /\ sdk_calls' = Called(call, "ok", arg)
       /\ step' = next
       /\ UNCHANGED <<script, status, printed, environ, dirs, files, locals>>
    \/ UpdateFailed(call, arg)

\* Lines 109-113.
TesterRunner ==
    /\ Testing("adk.Runner")
    /\ UpdateCall("adk.Runner", locals.session_id, "runner.run")
    /\ UNCHANGED <<citation_vars, pipeline_vars>>

\* Lines 123-134: the message is sent and the events are read.
TesterRun ==
    /\ Testing("runner.run")
    /\ UpdateCall("runner.run", locals.session_id, "get_session")
    /\ UNCHANGED <<citation_vars, pipeline_vars>>

\* Lines 137-145.
TesterGetSession ==
    /\ Testing("get_session")
    /\ UpdateCall("session_service.get_session", locals.session_id,
                  "new_session_service")
    /\ UNCHANGED <<citation_vars, pipeline_vars>>

\* A call of the try block of test_session_persistence, lines 155-177.
PersistenceCall(call, arg, next) ==
    \/ /\ sdk_calls' = Called(call, "ok", arg)
       /\ step' = next
       /\ UNCHANGED <<script, status, printed, environ, dirs, files, locals>>
    \/ /\ sdk_calls' = Called(call, "raised", arg)
       /\ printed' = Append(printed, Line("Session persistence failed", ""))
       /\ step' = "return"
       /\ UNCHANGED <<script, status, environ, dirs, files, locals>>

\* Lines 157-160: a second service instance.
TesterNewSessionService ==
    /\ Testing("new_session_service")
    /\ PersistenceCall("new VertexAiSessionService", locals.session_id,
                       "persisted")
    /\ UNCHANGED <<citation_vars, pipeline_vars>>

\* Lines 163-173.
TesterPersistedSession ==
    /\ Testing("persisted")
    /\ PersistenceCall("new_session_service.get_session", locals.session_id,
                       "return")
    /\ UNCHANGED <<citation_vars, pipeline_vars>>

\* Lines 204-210.
TesterReturn ==
    /\ Testing("return")
    /\ printed' = Append(printed, Line("All tests completed", ""))
    /\ Returns
    /\ UNCHANGED sdk_calls
    /\ UNCHANGED <<citation_vars, pipeline_vars>>

NextTester ==
    \/ TesterGetAgentEngineId
    \/ TesterVertexaiInit
    \/ TesterSessionService
    \/ TesterRunAllTests
    \/ TesterCreateSession
    \/ TesterRunner
    \/ TesterRun
    \/ TesterGetSession
    \/ TesterNewSessionService
    \/ TesterPersistedSession
    \/ TesterReturn

SpecTester == InitTester /\ [][NextTester]_vars

----------------------------------------------------------------------------
(* cleanup_for_fresh_start.py: main removes the memory artifacts and then  *)
(* creates the new directory structure.  A path is the sequence of its     *)
(* components below project_root; files maps the paths of the files to     *)
(* their content and dirs is the set of the directories.                   *)

\* Lines 22-28.
files_to_remove ==
    <<<<"logs", "memory_audit.jsonl">>,
      <<"app", "memory_service.py">>,
      <<"app", "memory_tools.py">>,
      <<"app", "audit", "memory_audit.py">>,
      <<"ai_docs", "prep_templates", "memory-tool-dev", "*">>>>

\* Lines 31-35.
dirs_to_remove ==
    <<<<"app", "memory">>,
      <<"app", "audit", "__pycache__">>,
      <<"app", "security", "__pycache__">>>>

\* Lines 60-63.
empty_dirs == <<<<"app", "audit">>, <<"app", "security">>>>

\* Lines 82-89.
new_dirs ==
    <<<<"app", "core">>,
      <<"app", "memory">>,
      <<"app", "services">>,
      <<"app", "models">>,
      <<"docs", "architecture">>,
      <<"docs", "memory_design">>>>

\* full_path.parent
Parent(path) == SubSeq(path, 1, Len(path) - 1)

\* full_path.name
Name(path) == path[Len(path)]

\* path lies below the directory dir.
IsUnder(path, dir) ==
    /\ Len(path) > Len(dir)
    /\ SubSeq(path, 1, Len(dir)) = dir

\* The directories above path.
Ancestors(path) == {SubSeq(path, 1, n) : n \in 1..(Len(path) - 1)}

\* dir.iterdir(): the entries of a directory.
Entries_of(dir) ==
    {p \in DOMAIN files \cup dirs : Len(p) = Len(dir) + 1 /\ Parent(p) = dir}

\* dir.glob(pattern) for the patterns of the script: "*" matches every
\* entry, any other pattern the entry of that name.
Glob(dir, pattern) ==
    {p \in Entries_of(dir) : pattern = "*" \/ Name(p) = pattern}

\* The files without those of the set gone.
Without(gone) == [p \in DOMAIN files \ gone |-> files[p]]

\* The text create_fresh_structure writes into a new __init__.py.
PackageInit == "Package initialization."

\* The files an earlier state of the project can hold, each with content of
\* its own time.
EarlierFiles ==
    {<<"logs", "memory_audit.jsonl">>,
     <<"app", "memory_service.py">>,
     <<"app", "memory_tools.py">>,
     <<"app", "audit", "memory_audit.py">>,
     <<"app", "audit", "logger.py">>,
     <<"app", "audit", "__pycache__", "logger.pyc">>,
     <<"ai_docs", "prep_templates", "memory-tool-dev", "template.md">>,
     <<"app", "memory", "memory_api_test.py">>,
     <<"app", "memory", "__init__.py">>,
     <<"app", "core", "__init__.py">>}

\* An entry named "*" of the template directory: none, a file or a
\* directory.
StarPath == <<"ai_docs", "prep_templates", "memory-tool-dev", "*">>

InitCleanup ==
    /\ NoAgentRun
    /\ script = "cleanup_for_fresh_start"
    /\ step = "files_to_remove"
    /\ status = "running"
    /\ sdk_calls = <<>>
    /\ printed = <<>>
    /\ environ = EmptyDict
    /\ \E present \in SUBSET EarlierFiles,
          star \in {"none", "file", "dir"},
          more \in SUBSET {<<"app", "security">>, <<"app", "memory">>} :
          /\ files = [p \in present \cup
                              (IF star = "file" THEN {StarPath} ELSE {})
                         |-> "earlier"]
          /\ dirs = UNION {Ancestors(p) : p \in present}
                       \cup more
                       \cup (IF star = "none" THEN {}
                             ELSE Ancestors(StarPath))
                       \cup (IF star = "dir" THEN {StarPath} ELSE {})
    /\ locals = [i |-> 1]

Cleaning(at) ==
    /\ script = "cleanup_for_fresh_start"
    /\ status = "running"
    /\ step = at

\* The next iteration of a loop over list, or the step after the loop.
Iterate(list, after) ==
    IF locals.i = Len(list)
    THEN /\ step' = after
         /\ locals' = [i |-> 1]
    ELSE /\ step' = step
         /\ locals' = [i |-> locals.i + 1]

\* Lines 41-50: a path that is a file is unlinked; a path that is a
\* directory is taken for a pattern, and the entries of its parent that
\* match its name are unlinked in the order glob yields them, which raises
\* at the first directory among them (the path itself is one); a path that
\* does not exist is passed over.
RemoveFile(full_path) ==
    IF full_path \in DOMAIN files
    THEN \/ /\ files' = Without({full_path})
            /\ sdk_calls' = Called("unlink", "ok", full_path)
            /\ printed' = Append(printed, Line("Removed file", full_path))
            /\ Iterate(files_to_remove, "dirs_to_remove")
            /\ UNCHANGED <<script, status, environ, dirs>>
         \/ /\ sdk_calls' = Called("unlink", "raised", full_path)
            /\ status' = "crashed"
            /\ UNCHANGED <<script, step, printed, environ, dirs, files,
                           locals>>
    ELSE IF full_path \in dirs
    THEN \E unlinked \in SUBSET (Glob(Parent(full_path), Name(full_path))
                                    \cap DOMAIN files) :
            /\ files' = Without(unlinked)
            /\ sdk_calls' = Called("unlink", "raised", full_path)
            /\ status' = "crashed"
            /\ UNCHANGED <<script, step, printed, environ, dirs, locals>>
    ELSE /\ Iterate(files_to_remove, "dirs_to_remove")
         /\ UNCHANGED <<script, status, sdk_calls, printed, environ, dirs,
                        files>>

\* Lines 40-50: one iteration of the loop over files_to_remove.
CleanupRemoveFile ==
    /\ Cleaning("files_to_remove")
    /\ RemoveFile(files_to_remove[locals.i])
    /\ UNCHANGED <<citation_vars, pipeline_vars>>

\* Lines 53-57: one iteration of the loop over dirs_to_remove; rmtree takes
\* the directory with all that is below it.
CleanupRemoveDir ==
    /\ Cleaning("dirs_to_remove")
    /\ \E full_path \in {dirs_to_remove[locals.i]} :
          IF full_path \in dirs
          THEN \/ /\ dirs' = {d \in dirs :
                                d # full_path /\ ~IsUnder(d, full_path)}
                  /\ files' = Without({p \in DOMAIN files :
                                          IsUnder(p, full_path)})
                  /\ sdk_calls' = Called("shutil.rmtree", "ok", full_path)
                  /\ printed' = Append(printed,
                                       Line("Removed directory", full_path))
                  /\ Iterate(dirs_to_remove, "empty_dirs")
                  /\ UNCHANGED <<script, status, environ>>
               \/ /\ sdk_calls' = Called("shutil.rmtree", "raised", full_path)
                  /\ status' = "crashed"
                  /\ UNCHANGED <<script, step, printed, environ, dirs, files,
                                 locals>>
          ELSE /\ Iterate(dirs_to_remove, "empty_dirs")
               /\ UNCHANGED <<script, status, sdk_calls, printed, environ,
                              dirs, files>>
    /\ UNCHANGED <<citation_vars, pipeline_vars>>

\* Lines 65-71: one iteration of the loop over empty_dirs.
CleanupEmptyDir ==
    /\ Cleaning("empty_dirs")
    /\ \E full_path \in {empty_dirs[locals.i]} :
          IF full_path \in dirs /\ Entries_of(full_path) = {}
          THEN /\ dirs' = dirs \ {full_path}
               /\ sdk_calls' = Called("rmdir", "ok", full_path)
               /\ printed' = Append(printed,
                                    Line("Removed empty directory",
                                         full_path))
               /\ Iterate(empty_dirs, "new_dirs")
               /\ UNCHANGED <<script, status, environ, files>>
          ELSE /\ Iterate(empty_dirs, "new_dirs")
               /\ UNCHANGED <<script, status, sdk_calls, printed, environ,
                              dirs, files>>
    /\ UNCHANGED <<citation_vars, pipeline_vars>>

\* Lines 93-103: one iteration of the loop of create_fresh_structure:
\* mkdir(parents=True, exist_ok=True), and for a directory of app an
\* __init__.py unless there is one.
CreateDir ==
    /\ Cleaning("new_dirs")
    /\ \E full_path \in {new_dirs[locals.i]} :
          /\ dirs' = dirs \cup Ancestors(full_path) \cup {full_path}
          /\ \E init_file \in {Append(full_path, "__init__.py")} :
                IF full_path[1] = "app" /\ init_file \notin DOMAIN files
                THEN /\ files' = (init_file :> PackageInit) @@ files
                     /\ sdk_calls' = Append(Called("mkdir", "ok", full_path),
                                            [call |-> "write_text",
                                             result |-> "ok",
                                             arg |-> init_file])
                ELSE /\ sdk_calls' = Called("mkdir", "ok", full_path)
                     /\ UNCHANGED files
          /\ printed' = Append(printed, Line("Created", full_path))
    /\ Iterate(new_dirs, "return")
    /\ UNCHANGED <<script, status, environ>>
    /\ UNCHANGED <<citation_vars, pipeline_vars>>

\* Lines 120-129.
CleanupReturn ==
    /\ Cleaning("return")
    /\ printed' = Append(printed,
                         Line("READY FOR NEW MEMORY SYSTEM DESIGN", <<>>))
    /\ Returns
    /\ UNCHANGED sdk_calls
    /\ UNCHANGED <<citation_vars, pipeline_vars>>

NextCleanup ==
    \/ CleanupRemoveFile
    \/ CleanupRemoveDir
    \/ CleanupEmptyDir
    \/ CreateDir
    \/ CleanupReturn

SpecCleanup == InitCleanup /\ [][NextCleanup]_vars

----------------------------------------------------------------------------
(* GCPSetupTester (notes/.../vertex/tests/test_gcp_setup.py): main runs    *)
(* the seven checks, prints the summary, saves the report and exits.       *)

\* GCPSetupTester.EXPECTED_PROJECT and EXPECTED_LOCATION
EXPECTED_PROJECT == "agentlocker-466121"
EXPECTED_LOCATION == "us-central1"

\* The names of the list tests of run_all_tests, in its order.
tests ==
    <<"Environment Variables", "GCP Authentication", "API Status",
      "Vertex AI Connection", "Cloud Storage Access", "Agent Engine",
      "IAM Permissions">>

\* The environments of the tester: each required variable unset, empty, as
\* expected or different.
GcpEnvirons ==
    {p @@ l :
        p \in {EmptyDict} \cup
              {("GOOGLE_CLOUD_PROJECT" :> v) :
                  v \in {"", EXPECTED_PROJECT, "proj-b"}},
        l \in {EmptyDict} \cup
              {("GOOGLE_CLOUD_LOCATION" :> v) :
                  v \in {EXPECTED_LOCATION, "europe-west1"}}}

\* report_dir / f"gcp_setup_test_{now}.json"
report_file == "logs/gcp_setup_test_20250819_120000.json"

InitGcp ==
    /\ NoAgentRun
    /\ script = "test_gcp_setup"
    /\ step = "run_all_tests"
    /\ status = "running"
    /\ sdk_calls = <<>>
    /\ printed = <<>>
    /\ environ \in GcpEnvirons
    /\ dirs \in {{}, {"logs"}}
    /\ files = EmptyDict
    /\ locals = [i |-> 1, all_passed |-> TRUE, project_id |-> None,
                 location |-> None, errors |-> <<>>, warnings |-> <<>>,
                 successes |-> <<>>]

GcpTesting(at) ==
    /\ script = "test_gcp_setup"
    /\ status = "running"
    /\ step = at

\* The check at the i-th place of tests is due.
Due(test_name) ==
    /\ GcpTesting("run_all_tests")
    /\ tests[locals.i] = test_name

\* What a call of a check leaves behind: the value it returned, or that it
\* raised, and the fields of the tester as the check set them.
Outcome_of(raised, result, fields) ==
    [raised |-> raised, result |-> result, fields |-> fields]

\* Lines 481-489, mutated: the loop is left at the first check that fails
\* or raises.
RunTestStopAtFailure(test_name, ending) ==
    /\ sdk_calls' = Called(test_name,
                           IF ending.raised THEN "raised" ELSE "ok",
                           ending.result)
    /\ locals' =
          [ending.fields EXCEPT
              !.errors = IF ending.raised
                         THEN Append(@, Line("test failed", test_name))
                         ELSE @,
              !.all_passed = @ /\ ~ending.raised /\ ending.result,
              !.i = @ + 1]
    /\ printed' = IF ending.raised
                  THEN Append(printed, Line("failed with error", test_name))
                  ELSE printed
    /\ step' = IF locals.i = Len(tests) \/ ending.raised \/ ~ending.result
               THEN "generate_report" ELSE "run_all_tests"
    /\ UNCHANGED <<script, status, environ, dirs, files>>

\* Lines 481-489: one iteration of the loop of run_all_tests.  A check
\* that returns a false value clears all_passed; one that raises is
\* reported, entered in errors, and clears all_passed; the loop goes on.
RunTest(test_name, ending) ==
    /\ sdk_calls' = Called(test_name,
                           IF ending.raised THEN "raised" ELSE "ok",
                           ending.result)
    /\ locals' =
          [ending.fields EXCEPT
              !.errors = IF ending.raised
                         THEN Append(@, Line("test failed", test_name))
                         ELSE @,
              !.all_passed = @ /\ ~ending.raised /\ ending.result,
              !.i = @ + 1]
    /\ printed' = IF ending.raised
                  THEN Append(printed, Line("failed with error", test_name))
                  ELSE printed
    /\ step' = IF locals.i = Len(tests)
               THEN "generate_report" ELSE "run_all_tests"
    /\ UNCHANGED <<script, status, environ, dirs, files>>

\* The check returned True and changed nothing of the tester.
Passed == Outcome_of(FALSE, TRUE, locals)

\* The check returned False after it appended error to self.errors.
Failed(error) ==
    Outcome_of(FALSE, FALSE, [locals EXCEPT !.errors = Append(@, error)])

\* An exception left the check.
Raised == Outcome_of(TRUE, FALSE, locals)

\* Lines 143-158: one required variable.  fields is the tester so far; the
\* result is the tester after the variable was looked at.
CheckVariable(fields, var, expected_value, attribute) ==
    IF Falsy(EnvironGet(var))
    THEN [fields EXCEPT
             !.errors = Append(@, Line("Missing environment variable", var)),
             !.all_good = FALSE]
    ELSE IF environ[var] # expected_value
    THEN [fields EXCEPT
             !.warnings = Append(@, Line("has unexpected value", var))]
    ELSE [fields EXCEPT
             !.successes = Append(@, Line("configured correctly", var)),
             ![attribute] = environ[var]]

\* Lines 123-170: check_environment_variables.
GcpCheckEnvironment ==
    /\ Due("Environment Variables")
    /\ \E checked \in
          {CheckVariable(
              CheckVariable([all_good |-> TRUE] @@ locals,
                            "GOOGLE_CLOUD_PROJECT", EXPECTED_PROJECT,
                            "project_id"),
              "GOOGLE_CLOUD_LOCATION", EXPECTED_LOCATION, "location")} :
          RunTest("Environment Variables",
                  Outcome_of(FALSE, checked.all_good,
                             [k \in DOMAIN locals |-> checked[k]]))
    /\ UNCHANGED <<citation_vars, pipeline_vars>>

\* Lines 172-202: check_gcp_authentication.  Credentials are found; none
\* are found (False without an error entry); DefaultCredentialsError or
\* ImportError is handled; any other exception leaves the check.
GcpCheckAuthentication ==
    /\ Due("GCP Authentication")
    /\ \E ending \in
          {Passed,
           Outcome_of(FALSE, FALSE, locals),
           Failed(Line("GCP authentication not configured", "")),
           Failed(Line("Missing google-auth package", "")),
           Raised} :
          RunTest("GCP Authentication", ending)
    /\ UNCHANGED <<citation_vars, pipeline_vars>>

\* Lines 204-236: check_apis_enabled returns True on both paths.
GcpCheckApis ==
    /\ Due("API Status")
    /\ RunTest("API Status", Passed)
    /\ UNCHANGED <<citation_vars, pipeline_vars>>

\* Lines 238-278: check_vertex_ai_connection.
GcpCheckVertexAi ==
    /\ Due("Vertex AI Connection")
    /\ \E ending \in
          {Passed,
           Outcome_of(FALSE, TRUE,
                      [locals EXCEPT
                          !.successes =
                             Append(@, Line("Vertex AI connection verified",
                                            ""))]),
           Failed(Line("Missing google-cloud-aiplatform package", "")),
           Failed(Line("Vertex AI initialization failed", ""))} :
          RunTest("Vertex AI Connection", ending)
    /\ UNCHANGED <<citation_vars, pipeline_vars>>

\* Lines 280-324: check_storage_access.  Only ImportError is handled
\* around storage.Client: another exception of it leaves the check.
GcpCheckStorage ==
    /\ Due("Cloud Storage Access")
    /\ \E ending \in
          {Passed,
           Failed(Line("Cloud Storage access failed", "")),
           Failed(Line("Missing google-cloud-storage package", "")),
           Raised} :
          RunTest("Cloud Storage Access", ending)
    /\ UNCHANGED <<citation_vars, pipeline_vars>>

\* Lines 326-361: check_agent_engine returns True on both paths.
GcpCheckAgentEngine ==
    /\ Due("Agent Engine")
    /\ RunTest("Agent Engine", Passed)
    /\ UNCHANGED <<citation_vars, pipeline_vars>>

\* Lines 363-394: check_iam_permissions returns True on both paths.
GcpCheckIam ==
    /\ Due("IAM Permissions")
    /\ RunTest("IAM Permissions", Passed)
    /\ UNCHANGED <<citation_vars, pipeline_vars>>

\* "PASSED" if not self.errors else "FAILED"
ReportStatus(errors) == IF errors = <<>> THEN "PASSED" ELSE "FAILED"

\* Lines 396-441: generate_report prints the verdict.
GcpGenerateReport ==
    /\ GcpTesting("generate_report")
    /\ printed' = Append(printed,
                         Line("SETUP VALIDATION", ReportStatus(locals.errors)))
    /\ step' = "save_report"
    /\ UNCHANGED <<script, status, sdk_calls, environ, dirs, files, locals>>
    /\ UNCHANGED <<citation_vars, pipeline_vars>>

\* Lines 520-522: the handler of main for an exception of the steps after
\* the checks.
UnexpectedError(call, arg) ==
    /\ sdk_calls' = Called(call, "raised", arg)
    /\ printed' = Append(printed, Line("Unexpected error", ""))
    /\ locals' = Assign(locals, "exit_code", 1)
    /\ status' = "exited"
    /\ UNCHANGED <<script, step, environ, files>>

\* Lines 443-463: save_report makes the directory, unless it is there, and
\* writes the report; mkdir or open can raise, which main handles.
GcpSaveReport ==
    /\ GcpTesting("save_report")
    /\ \/ /\ dirs' = dirs \cup {"logs"}
          /\ files' =
                (report_file :>
                    [project_id |-> IF Falsy(locals.project_id)
                                    THEN EXPECTED_PROJECT
                                    ELSE locals.project_id,
                     location |-> IF Falsy(locals.location)
                                  THEN EXPECTED_LOCATION
                                  ELSE locals.location,
                     successes |-> locals.successes,
                     warnings |-> locals.warnings,
                     errors |-> locals.errors,
                     status |-> ReportStatus(locals.errors)]) @@ files
          /\ sdk_calls' = Called("open", "ok", report_file)
          /\ step' = "sys.exit"
          /\ UNCHANGED <<script, status, printed, environ, locals>>
       \/ /\ "logs" \notin dirs
          /\ UnexpectedError("mkdir", "logs")
          /\ UNCHANGED dirs
       \/ /\ UnexpectedError("open", report_file)
          /\ dirs' = dirs \cup {"logs"}
    /\ UNCHANGED <<citation_vars, pipeline_vars>>

\* Line 515: 0 if success and not tester.errors else 1
ExitCode == IF locals.all_passed /\ locals.errors = <<>> THEN 0 ELSE 1

\* Line 515: sys.exit.
GcpExit ==
    /\ GcpTesting("sys.exit")
    /\ locals' = Assign(locals, "exit_code", ExitCode)
    /\ status' = "exited"
    /\ UNCHANGED <<script, step, sdk_calls, printed, environ, dirs, files>>
    /\ UNCHANGED <<citation_vars, pipeline_vars>>

NextGcp ==
    \/ GcpCheckEnvironment
    \/ GcpCheckAuthentication
    \/ GcpCheckApis
    \/ GcpCheckVertexAi
    \/ GcpCheckStorage
    \/ GcpCheckAgentEngine
    \/ GcpCheckIam
    \/ GcpGenerateReport
    \/ GcpSaveReport
    \/ GcpExit

SpecGcp == InitGcp /\ [][NextGcp]_vars

----------------------------------------------------------------------------
(* Observations of a run of the callback.                                  *)

\* The inputs the callback read (the callback never changes these keys).
report == Get(state, "final_cited_report", <<>>)
sources == Get(state, "sources", EmptyDict)

log == trace.log
calls == trace.calls

\* The string s holds t at position i; s holds t somewhere.
HasAt(s, i, t) == Lit(s, i, t) # 0
Contains(s, t) == \E i \in 1..Len(s) : HasAt(s, i, t)

\* A citation tag, as the pattern defines it, occurs in s.
HasTag(s) == SearchTag(s, 1) # 0

\* The string s with the span of each call of cs, from the k-th on, replaced
\* by the text of the same index in texts; pos is the first position of s
\* not yet copied.
RECURSIVE Splice(_, _, _, _, _)
Splice(s, cs, texts, k, pos) ==
    IF k > Len(cs) THEN SubSeq(s, pos, Len(s))
    ELSE SubSeq(s, pos, cs[k].from - 1) \o texts[k]
         \o Splice(s, cs, texts, k + 1, cs[k].to + 1)

\* The record that sources holds for the id of call c is usable: it is not
\* empty and has a url.
Resolves(c) ==
    /\ Truthy(sources, c.short_id)
    /\ "url" \in DOMAIN sources[c.short_id]

----------------------------------------------------------------------------
(* C1: when every tag of the report references an id present in sources,   *)
(* the text the callback returns and stores contains no citation tag.      *)
(* This fails: a title that is itself a tag is copied into the output, and *)
(* a tag whose record is the empty dict is removed, which can join the     *)
(* text around it into a new tag.                                          *)
C1_Original ==
    (pc = "returned"
     /\ \A k \in DOMAIN calls : calls[k].short_id \in DOMAIN sources)
    => ~HasTag(content)

\* C1, amended: when every tag of the report references an id whose record
\* is not empty and has a url, and no title, domain or url of such a record
\* contains a citation tag, the text returned and stored under
\* final_report_with_citations contains no citation tag.
C1_NoTagRemains ==
    (pc = "returned"
     /\ \A k \in DOMAIN calls :
            /\ Resolves(calls[k])
            /\ \A f \in DOMAIN sources[calls[k].short_id] :
                   ~HasTag(sources[calls[k].short_id][f]))
    => /\ ~HasTag(content)
       /\ \A t \in WellFormedTags : ~Contains(content, t)
       /\ state["final_report_with_citations"] = content

C1_Witness ==
    /\ pc = "returned"
    /\ Len(calls) = 3
    /\ \A k \in DOMAIN calls : calls[k].kind = "link"
    /\ sources = (Src1 :> [title |-> Title, domain |-> Domain, url |-> Url])
    /\ ~HasTag(content)

----------------------------------------------------------------------------
(* C2: the report 'See <cite source="src-1"/> .' with the sources          *)
(* {"src-1": {"title": "Example", "url": "https://ex.com"}} gives          *)
(* 'See [Example](https://ex.com).', with one blank after 'See'.  This     *)
(* fails: the blank of the report and the blank that tag_replacer puts     *)
(* before the link are both kept.                                          *)
ExampleReport == TextSee \o TagSrc1 \o TextStop
ExampleSources == (Src1 :> [title |-> Title, url |-> Url])

C2_Original ==
    (pc = "returned" /\ report = ExampleReport /\ sources = ExampleSources)
    => content =
         <<"S", "e", "e", " ", "[", "E", "x", "a", "m", "p", "l", "e", "]",
           "(", "h", "t", "t", "p", "s", ":", "/", "/", "e", "x", ".", "c",
           "o", "m", ")", ".">>

\* C2, amended: for that report and those sources the output is exactly
\* 'See  [Example](https://ex.com).': two blanks between 'See' and the link,
\* none before the final period.
C2_WorkedExample ==
    (pc # "ready" /\ report = ExampleReport /\ sources = ExampleSources)
    => /\ pc = "returned"
       /\ content =
            <<"S", "e", "e", " ", " ", "[", "E", "x", "a", "m", "p", "l", "e",
              "]", "(", "h", "t", "t", "p", "s", ":", "/", "/", "e", "x", ".",
              "c", "o", "m", ")", ".">>
       /\ state["final_report_with_citations"] = content

C2_Witness ==
    /\ pc = "returned"
    /\ report = ExampleReport
    /\ sources = ExampleSources
    /\ Len(content) = 31

----------------------------------------------------------------------------
(* C3: a well-formed tag whose id is absent from sources (the mapping may  *)
(* be empty) is removed with nothing put in its place and a warning that   *)
(* quotes it is logged; its call of tag_replacer does not raise, and a     *)
(* report all of whose tags are unknown is processed to the end: the text  *)
(* after the substitution is the report with the tags cut out.             *)
C3_UnknownIdRemoved ==
    pc # "ready" =>
      /\ \A k \in DOMAIN calls :
            calls[k].short_id \notin DOMAIN sources =>
               /\ calls[k].kind = "removed"
               /\ calls[k].text = <<>>
               /\ \E n \in DOMAIN log :
                     log[n] = SubSeq(report, calls[k].from, calls[k].to)
      /\ (\A k \in DOMAIN calls : calls[k].short_id \notin DOMAIN sources) =>
            /\ pc = "returned"
            /\ Len(log) = Len(calls)
            /\ trace.out =
                 Splice(report, calls, [k \in DOMAIN calls |-> <<>>], 1, 1)
            /\ Len(trace.out) =
                 Len(report)
                 - Len(Flatten([k \in DOMAIN calls |->
                       SubSeq(report, calls[k].from, calls[k].to)]))

\* The example of the spec: <cite source="src-9"/> with an empty mapping.
C3_Witness ==
    /\ pc = "returned"
    /\ sources = EmptyDict
    /\ report = TagSrc9
    /\ content = <<>>
    /\ log = <<TagSrc9>>

----------------------------------------------------------------------------
(* C4: a tag whose id resolves to a source record is replaced by the link  *)
(* ' [label](url)', where the label is the record's title when it has one, *)
(* otherwise its domain when it has one, otherwise the short id, and the   *)
(* target is the record's url.                                             *)
ExpectedLabel(c) ==
    LET rec == sources[c.short_id]
    IN  IF "title" \in DOMAIN rec THEN rec["title"]
        ELSE IF "domain" \in DOMAIN rec THEN rec["domain"]
        ELSE c.short_id

ExpectedText(c) ==
    IF Resolves(c)
    THEN <<" ", "[">> \o ExpectedLabel(c) \o <<"]", "(">>
         \o sources[c.short_id]["url"] \o <<")">>
    ELSE <<>>

C4_DisplayPrecedence ==
    pc # "ready" =>
      /\ \A k \in DOMAIN calls :
            Resolves(calls[k]) =>
               /\ calls[k].kind = "link"
               /\ calls[k].text = ExpectedText(calls[k])
      /\ pc = "returned" =>
            trace.out =
              Splice(report, calls,
                     [k \in DOMAIN calls |-> ExpectedText(calls[k])], 1, 1)

\* A record with a domain and no title is labelled with the domain.
C4_Witness ==
    /\ pc = "returned"
    /\ Len(calls) >= 1
    /\ Resolves(calls[1])
    /\ DOMAIN sources[Src1] = {"domain", "url"}
    /\ Contains(content, <<"[">> \o Domain \o <<"]", "(">> \o Url \o <<")">>)

----------------------------------------------------------------------------
(* C5: the callback never raises, whatever the report and the sources      *)
(* (missing ids, records lacking fields, malformed tags).                  *)
C5_NeverRaises == pc # "raised"

----------------------------------------------------------------------------
(* C6: in the output no whitespace character is immediately followed by    *)
(* one of . , ; : and the output is the text after the tag substitution    *)
(* without the runs of whitespace that stood directly before one of them.  *)
BeforePunctuation(s, i) ==
    /\ s[i] \in StripChars
    /\ \E j \in (i + 1)..Len(s) :
          /\ s[j] \in Punctuation
          /\ \A k \in i..(j - 1) : s[k] \in StripChars

\* The characters of s at the positions lo..hi, without the whitespace that
\* stands in a run directly before a punctuation character.
RECURSIVE DropBeforePunctuation(_, _, _)
DropBeforePunctuation(s, lo, hi) ==
    IF lo > hi THEN <<>>
    ELSE IF lo = hi
    THEN (IF BeforePunctuation(s, lo) THEN <<>> ELSE <<s[lo]>>)
    ELSE LET mid == (lo + hi) \div 2
         IN  DropBeforePunctuation(s, lo, mid)
             \o DropBeforePunctuation(s, mid + 1, hi)

C6_WhitespaceCollapsed ==
    pc = "returned" =>
      /\ \A i \in 1..(Len(content) - 1) :
            ~(content[i] \in StripChars /\ content[i + 1] \in Punctuation)
      /\ content = DropBeforePunctuation(trace.out, 1, Len(trace.out))

\* 'See ' followed by ' .': the run of two blanks before the period goes.
C6_Witness ==
    /\ pc = "returned"
    /\ report = TextSee \o TextStop
    /\ content = <<"S", "e", "e", ".">>

----------------------------------------------------------------------------
(* C7: the text stored in final_report_with_citations contains no citation *)
(* tag, whether the tag of the report was well-formed or malformed: no     *)
(* '<cite' opening is left in it.                                          *)
C7_NoTagPropagates ==
    pc = "returned" =>
       ~Contains(state["final_report_with_citations"], LitCite)

----------------------------------------------------------------------------
(* C8: a malformed tag is not matched and appears in the output exactly as *)
(* in the report.  This fails for a malformed tag that holds whitespace    *)
(* before a punctuation character: the punctuation pass runs over the      *)
(* whole text and removes it.                                              *)

\* The malformed tag t stands at position i of the report, and what follows
\* does not complete it to a well-formed tag.
MalformedAt(i, t) ==
    /\ HasAt(report, i, t)
    /\ t = TagUnclosed => ~HasAt(report, i + Len(t), LitClose)

\* <cite source="src-1, src-2"/>: TagTwoIds without the blank before ','.
TagTwoIdsCollapsed ==
    <<"<", "c", "i", "t", "e", " ", "s", "o", "u", "r", "c", "e", "=", "\"",
      "s", "r", "c", "-", "1", ",", " ", "s", "r", "c", "-", "2", "\"",
      "/", ">">>

C8_Original ==
    pc = "returned" =>
      \A t \in MalformedTags : \A i \in 1..Len(report) :
         MalformedAt(i, t) => Contains(content, t)

\* C8, amended: a malformed tag is not matched: no call of tag_replacer
\* touches it (no link; every warning quotes a tag that was matched), the
\* tag substitution copies it unchanged, and it appears in the output as in
\* the report except that whitespace directly before . , ; : inside it is
\* removed.
C8_MalformedLeftAlone ==
    pc = "returned" =>
      \A t \in MalformedTags : \A i \in 1..Len(report) :
         MalformedAt(i, t) =>
            /\ \A k \in DOMAIN calls :
                  calls[k].to < i \/ calls[k].from > i + Len(t) - 1
            /\ \A n \in DOMAIN log :
                  \E k \in DOMAIN calls :
                     log[n] = SubSeq(report, calls[k].from, calls[k].to)
            /\ Contains(trace.out, t)
            /\ Contains(content,
                        IF t = TagTwoIds THEN TagTwoIdsCollapsed ELSE t)

C8_Witness ==
    /\ pc = "returned"
    /\ report = TagTwoIds \o TagUnclosed \o TextStop
    /\ calls = <<>>
    /\ content = TagTwoIdsCollapsed \o TagUnclosed \o <<".">>

----------------------------------------------------------------------------
(* C9: a tag written with single quotes or no quotes around the id, and    *)
(* with whitespace around '=', inside the quotes and before '/>', is       *)
(* matched and handled like <cite source="src-1"/>: the run on the report  *)
(* has the outcome of the run on the report with the canonical tag in its  *)
(* place.                                                                  *)

\* The occurrences of the variant tags in s, as spans.
VariantSpans(s) ==
    {[from |-> i, to |-> i + Len(v) - 1] :
        <<i, v>> \in {x \in (1..Len(s)) \X VariantTags :
                        HasAt(s, x[1], x[2])}}

\* A set of disjoint spans in the order of their positions.
InOrder(spans) ==
    [n \in 1..Cardinality(spans) |->
        CHOOSE sp \in spans :
            Cardinality({o \in spans : o.from < sp.from}) = n - 1]

\* s with every variant tag replaced by the canonical tag of src-1.
Canonical(s) ==
    LET spans == InOrder(VariantSpans(s))
    IN  Splice(s, spans, [n \in DOMAIN spans |-> TagSrc1], 1, 1)

\* What a run of the tag substitution did, apart from where the tags stood
\* and how they were written.
Outcome(t) ==
    [out |-> t.out, raised |-> t.raised, warnings |-> Len(t.log),
     handled |-> [k \in DOMAIN t.calls |->
                    <<t.calls[k].short_id, t.calls[k].kind,
                      t.calls[k].text>>]]

C9_TolerantRecognition ==
    pc # "ready" =>
      /\ \E canonical_run \in
               {SubTags(sources, Canonical(report), 1, NoTrace)} :
            Outcome(trace) = Outcome(canonical_run)
      /\ pc = "returned" =>
            \A sp \in VariantSpans(report) :
               \E k \in DOMAIN calls :
                  /\ calls[k].from = sp.from
                  /\ calls[k].to = sp.to
                  /\ calls[k].short_id = Src1

C9_Witness ==
    /\ pc = "returned"
    /\ report = TagSingleQuoted \o TagUnquoted
    /\ sources = ExampleSources
    /\ Len(calls) = 2
    /\ calls[1].text = calls[2].text
    /\ calls[1].kind = "link"

----------------------------------------------------------------------------
(* C10: the stages of research_pipeline run in the order section_planner,  *)
(* section_researcher, iterative_refinement_loop, report_composer; no      *)
(* agent starts before the one started before it has ended; and            *)
(* report_composer does not start before the loop has ended.               *)
StageRank(a) ==
    CASE a = "section_planner" -> 1
      [] a = "section_researcher" -> 2
      [] a \in {"research_evaluator", "escalation_checker",
                "enhanced_search_executor"} -> 3
      [] a = "report_composer" -> 4

StartIndexes == {i \in DOMAIN events : events[i][1] = "start"}
Ended(a) == \E i \in DOMAIN events : events[i] = <<"end", a>>

\* The loop has ended: its checker escalated, or the last agent of its last
\* allowed iteration has ended.
LoopEnded ==
    \/ /\ grade = "pass"
       /\ \E i \in DOMAIN events : events[i] = <<"end", "escalation_checker">>
    \/ Cardinality({i \in DOMAIN events :
                      events[i] = <<"end", "enhanced_search_executor">>}) = 5

C10_StageOrder ==
    /\ \A i, j \in StartIndexes :
          i < j => StageRank(events[i][2]) <= StageRank(events[j][2])
    /\ \A i \in StartIndexes :
          /\ i > 1 => events[i - 1] = <<"end", events[i - 1][2]>>
          /\ StageRank(events[i][2]) >= 2 => Ended("section_planner")
          /\ StageRank(events[i][2]) >= 3 => Ended("section_researcher")
          /\ StageRank(events[i][2]) = 4 => LoopEnded
    /\ events # <<>> => events[1] = <<"start", "section_planner">>

C10_Witness ==
    /\ outcome = "completed"
    /\ times_looped = 2
    /\ grade = "pass"
    /\ events[Len(events)] = <<"end", "report_composer">>

----------------------------------------------------------------------------
(* Observations of a run of research_pipeline.                             *)

LoopAgents ==
    {"research_evaluator", "escalation_checker", "enhanced_search_executor"}

\* The positions in the event log where agent a was started.
Starts(a) == {i \in DOMAIN events : events[i] = <<"start", a>>}

\* The starts of the loop's agents, in the order they happened.
LoopStartSeq ==
    SelectSeq(events, LAMBDA e : e[1] = "start" /\ e[2] \in LoopAgents)

\* The escalation checker escalated.
Escalated ==
    \E i \in DOMAIN events : events[i] = <<"escalate", "escalation_checker">>

\* The iterations of the loop that ran to their last agent's end.
IterationsDone ==
    Cardinality({i \in DOMAIN events :
                    events[i] = <<"end", "enhanced_search_executor">>})

----------------------------------------------------------------------------
(* C11: in every run the refinement loop performs at most 5 iterations, so *)
(* research_evaluator, escalation_checker and enhanced_search_executor are *)
(* each started at most 5 times.                                           *)
C11_LoopCap ==
    /\ times_looped <= 5
    /\ IterationsDone <= 5
    /\ \A a \in LoopAgents : Cardinality(Starts(a)) <= 5

C11_Witness ==
    /\ outcome = "completed"
    /\ times_looped = 5
    /\ \A a \in LoopAgents : Cardinality(Starts(a)) = 5

----------------------------------------------------------------------------
(* C12: the loop ends as soon as the escalation checker escalates: no      *)
(* agent of the loop is started after an escalation; when the checker      *)
(* never escalated and the loop has ended, exactly 5 iterations were done; *)
(* and, in a run whose agents all come to an end, report_composer is       *)
(* eventually executed unless an agent raised, which ends the run without  *)
(* it.  The statement as claimed has no exception for a raising agent.     *)
C12_Exit ==
    /\ \A i \in DOMAIN events :
          events[i] = <<"escalate", "escalation_checker">> =>
             /\ events[i + 1] = <<"end", "escalation_checker">>
             /\ \A j \in DOMAIN events :
                   j > i + 1 => events[j][2] \notin LoopAgents
    /\ (Starts("report_composer") # {} /\ ~Escalated) =>
          /\ IterationsDone = 5
          /\ \A a \in LoopAgents : Cardinality(Starts(a)) = 5

----------------------------------------------------------------------------
(* C13: the agents of the loop are started in the order research_evaluator,*)
(* escalation_checker, enhanced_search_executor, again and again;          *)
(* enhanced_search_executor is started only right after the escalation     *)
(* check of its iteration has ended without escalating, and never after an *)
(* escalation.                                                             *)
IterationOrder ==
    <<"research_evaluator", "escalation_checker", "enhanced_search_executor">>

C13_IterationOrder ==
    /\ \A k \in DOMAIN LoopStartSeq :
          LoopStartSeq[k][2] = IterationOrder[((k - 1) % 3) + 1]
    /\ \A i \in Starts("enhanced_search_executor") :
          /\ i > 2
          /\ events[i - 1] = <<"end", "escalation_checker">>
          /\ events[i - 2] = <<"start", "escalation_checker">>
          /\ \A j \in 1..i : events[j][1] # "escalate"

C13_Witness ==
    /\ Cardinality(Starts("enhanced_search_executor")) = 2
    /\ Escalated
    /\ Len(LoopStartSeq) = 8
    /\ Starts("report_composer") # {}

----------------------------------------------------------------------------
(* C14: section_planner, section_researcher and report_composer are each   *)
(* started at most once in a run, and nothing is started after an agent    *)
(* has raised: the failure is the last event of the run.                   *)
C14_NoRetry ==
    /\ \A a \in {"section_planner", "section_researcher", "report_composer"} :
          Cardinality(Starts(a)) <= 1
    /\ \A i \in DOMAIN events : events[i][1] = "fail" => i = Len(events)
    /\ outcome = "failed" =>
          /\ events # <<>>
          /\ events[Len(events)][1] = "fail"
          /\ agent = "none"

C14_Witness ==
    /\ outcome = "failed"
    /\ events[Len(events)] = <<"fail", "research_evaluator">>
    /\ times_looped = 1
    /\ Starts("report_composer") = {}

----------------------------------------------------------------------------
(* Observations of a run of a script.                                      *)

\* The positions in sdk_calls of the entries of call with result.
Entries(call, result) ==
    {n \in DOMAIN sdk_calls :
        sdk_calls[n].call = call /\ sdk_calls[n].result = result}

\* The positions in sdk_calls where call was invoked, whatever came of it.
Invoked(call) ==
    {n \in DOMAIN sdk_calls :
        sdk_calls[n].call = call /\ sdk_calls[n].result # "begin"}

----------------------------------------------------------------------------
(* C15: in every script, when a call of the vendor SDK raises, the         *)
(* exception is caught by the script, a message is printed, and the run is *)
(* over: no later call is made.                                            *)
C15_ScriptErrorHandling ==
    \A n \in DOMAIN sdk_calls :
       sdk_calls[n].result = "raised" =>
          /\ status = "returned"
          /\ printed # <<>>
          /\ n = Len(sdk_calls)

----------------------------------------------------------------------------
(* C16: when deploy_agent_engine_app has returned, the logs directory and  *)
(* logs/deployment_metadata.json exist, and the file holds an object with  *)
(* exactly the keys remote_agent_engine_id, agent_engine_id,               *)
(* deployment_timestamp, agent_name, project, location, session_service    *)
(* and memory_configuration, the two last ones being objects; it is the    *)
(* metadata of this run (its timestamp and its agent), not that of an      *)
(* earlier one.                                                            *)
C16_MetadataWritten ==
    (script = "deploy_agent_engine_app" /\ status = "returned") =>
       /\ logs_dir \in dirs
       /\ metadata_file \in DOMAIN files
       /\ DOMAIN files[metadata_file] =
             {"remote_agent_engine_id", "agent_engine_id",
              "deployment_timestamp", "agent_name", "project", "location",
              "session_service", "memory_configuration"}
       /\ DOMAIN files[metadata_file].session_service =
             {"type", "persistent", "configuration"}
       /\ DOMAIN files[metadata_file].memory_configuration =
             {"enabled", "service", "generation_interval",
              "agent_has_memory_tool", "automatic_generation"}
       /\ files[metadata_file].deployment_timestamp \in Timestamps
       /\ files[metadata_file].remote_agent_engine_id =
             locals.remote_agent.resource_name
       /\ files[metadata_file].agent_name = locals.deployment_config.agent_name

C16_Witness ==
    /\ script = "deploy_agent_engine_app"
    /\ status = "returned"
    /\ files[metadata_file].remote_agent_engine_id = EngineOne
    /\ files[metadata_file].deployment_timestamp \in Timestamps
    /\ files[metadata_file] # EarlierMetadata
    /\ files[metadata_file].memory_configuration.generation_interval =
          "EVERY_TURN"

----------------------------------------------------------------------------
(* C17: in a run of deploy_agent_engine_app, before the deploy step        *)
(* neither update nor create is invoked; once the step was executed        *)
(* exactly one of them was invoked, once: update, on the first listed      *)
(* agent, when the listing returned at least one agent, and create when it *)
(* returned none.                                                          *)
DeployStepExecuted ==
    /\ "existing_agents" \in DOMAIN locals
    /\ ~(status = "running" /\ step = "deploy")

C17_UpdateOrCreate ==
    script = "deploy_agent_engine_app" =>
       IF ~DeployStepExecuted
       THEN Invoked("update") \cup Invoked("agent_engines.create") = {}
       ELSE IF locals.existing_agents # <<>>
       THEN /\ Cardinality(Invoked("update")) = 1
            /\ Invoked("agent_engines.create") = {}
            /\ \A n \in Invoked("update") :
                  sdk_calls[n].arg = locals.existing_agents[1].resource_name
       ELSE /\ Cardinality(Invoked("agent_engines.create")) = 1
            /\ Invoked("update") = {}

C17_Witness ==
    /\ script = "deploy_agent_engine_app"
    /\ status = "returned"
    /\ Len(locals.existing_agents) = 2
    /\ \E n \in Invoked("update") : sdk_calls[n].arg = EngineTwo
    /\ locals.remote_agent.resource_name = EngineTwo

----------------------------------------------------------------------------
(* C18: in create_session_and_test_memory every awaited call has completed *)
(* before the next call begins; add_session_to_memory begins only after    *)
(* all five turns of the conversation have completed and the session has   *)
(* been fetched again after them, and it is given that session; a query of *)
(* the search runner begins only after add_session_to_memory has returned  *)
(* and the sleep of 5 seconds after it has ended; and each query runs in   *)
(* the session created right before it, which no other call has used.      *)
Begun == {n \in DOMAIN sdk_calls : sdk_calls[n].result = "begin"}

Sequential ==
    /\ \A n \in Begun :
          IF n = Len(sdk_calls)
          THEN status = "awaiting"
          ELSE /\ sdk_calls[n + 1].call = sdk_calls[n].call
               /\ sdk_calls[n + 1].result \in {"ok", "raised"}
    /\ status = "awaiting" => Len(sdk_calls) \in Begun

IngestedAfterConversation ==
    \A n \in Begun :
       sdk_calls[n].call = "add_session_to_memory" =>
          /\ Cardinality({m \in Entries("conversation_runner.run_async", "ok") :
                             m < n /\ sdk_calls[m].arg = locals.session_id})
                = 5
          /\ \E g \in Entries("get_session", "ok") :
                /\ g < n
                /\ sdk_calls[g].arg = locals.session_id
                /\ \A m \in Entries("conversation_runner.run_async", "ok") :
                      m < g
          /\ sdk_calls[n].arg = locals.session_id

SearchedAfterIngestion ==
    \A n \in Begun :
       sdk_calls[n].call = "search_runner.run_async" =>
          \E a \in Entries("add_session_to_memory", "ok") :
             \E w \in Entries("sleep", "ok") :
                /\ a < w
                /\ w < n
                /\ sdk_calls[w].arg = 5

OwnSession ==
    \A n \in Begun :
       sdk_calls[n].call = "search_runner.run_async" =>
          /\ sdk_calls[n - 1].call = "create_session"
          /\ sdk_calls[n - 1].result = "ok"
          /\ sdk_calls[n - 1].arg = sdk_calls[n].arg
          /\ sdk_calls[n].arg # locals.session_id
          /\ \A m \in 1..(n - 2) :
                sdk_calls[m].call \in {"create_session",
                                       "conversation_runner.run_async",
                                       "search_runner.run_async",
                                       "get_session",
                                       "add_session_to_memory"} =>
                   sdk_calls[m].arg # sdk_calls[n].arg

C18_SequentialOrdering ==
    script = "create_session_and_test_memory" =>
       /\ Sequential
       /\ IngestedAfterConversation
       /\ SearchedAfterIngestion
       /\ OwnSession

C18_Witness ==
    /\ script = "create_session_and_test_memory"
    /\ status = "returned"
    /\ printed = <<>>
    /\ Cardinality(Entries("search_runner.run_async", "ok")) = 3
    /\ Cardinality(Entries("add_session_to_memory", "ok")) = 1
    /\ Cardinality(Entries("create_session", "ok")) = 4

----------------------------------------------------------------------------
(* C19: every call of citation_replacement_callback returns; it stores the *)
(* text processed from final_cited_report (the empty string when absent)   *)
(* and sources (the empty mapping when absent) under                       *)
(* final_report_with_citations, returns content with that same text, and   *)
(* changes no other key of the state.                                      *)
C19_StateEffect ==
    [][(pc = "ready" /\ pc' # "ready") =>
          /\ pc' = "returned"
          /\ DOMAIN state' = DOMAIN state \cup {"final_report_with_citations"}
          /\ state'["final_report_with_citations"] = content'
          /\ content' =
                FixPunctuation(
                   SubTags(IF "sources" \in DOMAIN state
                           THEN state["sources"] ELSE EmptyDict,
                           IF "final_cited_report" \in DOMAIN state
                           THEN state["final_cited_report"] ELSE <<>>,
                           1, NoTrace).out)
          /\ \A k \in DOMAIN state : state'[k] = state[k]]_vars

----------------------------------------------------------------------------
(* C20: a service builder that is called with GOOGLE_CLOUD_PROJECT unset   *)
(* or empty raises ValueError and constructs nothing; otherwise it         *)
(* constructs its service, once, with that project, with                   *)
(* GOOGLE_CLOUD_LOCATION as the location or 'us-central1' when that is     *)
(* unset, and with AGENT_ENGINE_ID (None when unset) as the engine id.     *)
(* The session builder constructs a VertexAiSessionService and the memory  *)
(* builder a VertexAiMemoryBankService.                                    *)
BuilderCalled ==
    /\ script \in {"session_service_builder", "memory_service_builder"}
    /\ status # "running"

C20_ServiceBuilder ==
    BuilderCalled =>
       IF "GOOGLE_CLOUD_PROJECT" \notin DOMAIN environ
          \/ environ["GOOGLE_CLOUD_PROJECT"] = ""
       THEN /\ status = "crashed"
            /\ locals = [exception |-> "ValueError"]
            /\ sdk_calls = <<>>
       ELSE /\ status = "returned"
            /\ Len(sdk_calls) = 1
            /\ sdk_calls[1].call =
                  (IF script = "session_service_builder"
                   THEN "VertexAiSessionService"
                   ELSE "VertexAiMemoryBankService")
            /\ sdk_calls[1].arg.project = environ["GOOGLE_CLOUD_PROJECT"]
            /\ sdk_calls[1].arg.location =
                  (IF "GOOGLE_CLOUD_LOCATION" \in DOMAIN environ
                   THEN environ["GOOGLE_CLOUD_LOCATION"]
                   ELSE "us-central1")
            /\ sdk_calls[1].arg.agent_engine_id =
                  (IF "AGENT_ENGINE_ID" \in DOMAIN environ
                   THEN environ["AGENT_ENGINE_ID"]
                   ELSE None)

C20_Witness ==
    /\ script = "memory_service_builder"
    /\ status = "returned"
    /\ "GOOGLE_CLOUD_LOCATION" \notin DOMAIN environ
    /\ sdk_calls[1].arg =
          [project |-> "proj-b", location |-> "us-central1",
           agent_engine_id |-> "7"]

----------------------------------------------------------------------------
(* C21: the calls of deploy_agent_engine_app are made in the order         *)
(* configuration read, bucket creation, vertexai.init, requirements read,  *)
(* (app construction, listing,) update or create, (mkdir,) metadata write, *)
(* each at most once; the metadata file changes only in the metadata       *)
(* write, which is reached only when every call before it returned; so     *)
(* after a failure of an earlier step the file is absent or still the one  *)
(* an earlier deploy wrote.                                                *)
DeployRank(entry) ==
    CASE entry.call = "get_deployment_config" -> 1
      [] entry.call = "create_bucket_if_not_exists" -> 2
      [] entry.call = "vertexai.init" -> 3
      [] entry.call = "open" /\ entry.arg = ".requirements.txt" -> 4
      [] entry.call = "MemoryEnabledAgentEngineApp" -> 5
      [] entry.call = "agent_engines.list" -> 6
      [] entry.call \in {"update", "agent_engines.create"} -> 7
      [] entry.call = "mkdir" -> 8
      [] entry.call = "open" /\ entry.arg = metadata_file -> 9
      [] entry.call = "json.dump" -> 9

FailedBeforeWrite ==
    \E n \in DOMAIN sdk_calls :
       sdk_calls[n].result = "raised" /\ DeployRank(sdk_calls[n]) < 9

C21_InOrder ==
    script = "deploy_agent_engine_app" =>
       /\ \A i, j \in DOMAIN sdk_calls :
             i < j => DeployRank(sdk_calls[i]) < DeployRank(sdk_calls[j])
       /\ \A n \in DOMAIN sdk_calls :
             DeployRank(sdk_calls[n]) \in {1, 2, 3, 4, 7} =>
                \A r \in {1, 2, 3, 4, 7} :
                   r < DeployRank(sdk_calls[n]) =>
                      \E m \in 1..(n - 1) :
                         /\ DeployRank(sdk_calls[m]) = r
                         /\ sdk_calls[m].result = "ok"
       /\ FailedBeforeWrite =>
             /\ status = "crashed"
             /\ \/ metadata_file \notin DOMAIN files
                \/ files[metadata_file] = EarlierMetadata

C21_StepOrder ==
    /\ [](C21_InOrder)
    /\ [][(script = "deploy_agent_engine_app" /\ files' # files) =>
             /\ step = "write_metadata"
             /\ ~FailedBeforeWrite
             /\ \A r \in 1..8 :
                   \E m \in DOMAIN sdk_calls :
                      /\ DeployRank(sdk_calls[m]) = r
                      /\ sdk_calls[m].result = "ok"]_vars

C21_Witness ==
    /\ script = "deploy_agent_engine_app"
    /\ status = "crashed"
    /\ Len(sdk_calls) = 7
    /\ sdk_calls[7].call = "update"
    /\ sdk_calls[7].result = "raised"
    /\ files = (metadata_file :> EarlierMetadata)

----------------------------------------------------------------------------
(* C22: in the metadata a deploy wrote, agent_engine_id is what follows    *)
(* the last "/" of remote_agent_engine_id (all of it when there is none),  *)
(* session_service.configuration repeats agent_engine_id, project and      *)
(* location, and memory_configuration.generation_interval is the value of  *)
(* MEMORY_GENERATION_INTERVAL in the environment, END_OF_SESSION when the  *)
(* variable is unset, which is also the value in env_vars.                 *)
WrittenByThisRun ==
    /\ script = "deploy_agent_engine_app"
    /\ metadata_file \in DOMAIN files
    /\ "deployment_timestamp" \in DOMAIN files[metadata_file]
    /\ files[metadata_file].deployment_timestamp \in Timestamps

IsLastSegmentOf(id, name) ==
    /\ \A k \in DOMAIN id : id[k] # "/"
    /\ Len(id) <= Len(name)
    /\ SubSeq(name, Len(name) - Len(id) + 1, Len(name)) = id
    /\ Len(id) < Len(name) => name[Len(name) - Len(id)] = "/"

C22_MetadataConsistent ==
    WrittenByThisRun =>
       \E written \in {files[metadata_file]} :
          /\ IsLastSegmentOf(written.agent_engine_id,
                             written.remote_agent_engine_id)
          /\ written.session_service.configuration.agent_engine_id =
                written.agent_engine_id
          /\ written.session_service.configuration.project = written.project
          /\ written.session_service.configuration.location =
                written.location
          /\ written.memory_configuration.generation_interval =
                (IF "MEMORY_GENERATION_INTERVAL" \in DOMAIN environ
                 THEN environ["MEMORY_GENERATION_INTERVAL"]
                 ELSE "END_OF_SESSION")
          /\ written.memory_configuration.generation_interval =
                locals.env_vars.MEMORY_GENERATION_INTERVAL

C22_Witness ==
    /\ WrittenByThisRun
    /\ status = "returned"
    /\ "MEMORY_GENERATION_INTERVAL" \notin DOMAIN environ
    /\ files[metadata_file].remote_agent_engine_id = EngineTwo
    /\ files[metadata_file].agent_engine_id = <<"2">>
    /\ files[metadata_file].memory_configuration.generation_interval =
          "END_OF_SESSION"

----------------------------------------------------------------------------
(* Observations of a run of a session verification script.                 *)

\* The region direct_session_test reads at line 26.
Region == EnvironGetDefault("GOOGLE_CLOUD_LOCATION", "us-central1")

\* C23: in direct_session_test the session service is constructed with the
\* region read from GOOGLE_CLOUD_LOCATION (us-central1 when unset) and the
\* Location line that is printed shows that region, whichever metadata
\* files exist.
C23_LocationIsRegion ==
    script = "direct_session_test" =>
       /\ \A n \in DOMAIN sdk_calls :
             sdk_calls[n].call = "VertexAiSessionService" =>
                sdk_calls[n].arg.location = Region
       /\ \A n \in DOMAIN printed :
             printed[n].text = "Location" => printed[n].value = Region

\* The scripts with the lookup of lines 25-42.
LookupScripts ==
    {"verify_session_storage", "verify_session_with_api",
     "simple_session_test"}

\* The candidate paths that exist, as indices of metadata_locations.
Existing == {n \in DOMAIN metadata_locations :
                metadata_locations[n] \in DOMAIN files}

\* C24: in the three verification scripts the candidate paths are examined
\* in the order of the list, the search stops at the first one that exists
\* and that one is the file opened; when none exists the script prints the
\* missing-metadata message and returns, having called nothing but the
\* three existence tests.
C24_MetadataLookup ==
    script \in LookupScripts =>
       /\ \A n \in DOMAIN sdk_calls :
             sdk_calls[n].call = "exists" =>
                /\ n \in DOMAIN metadata_locations
                /\ sdk_calls[n].arg = metadata_locations[n]
                /\ \A m \in 1..(n - 1) : m \notin Existing
       /\ \A n \in DOMAIN sdk_calls :
             sdk_calls[n].call = "open" =>
                /\ Existing # {}
                /\ \A m \in Existing :
                      sdk_calls[n].arg = metadata_locations[m]
                         <=> \A k \in Existing : m <= k
                /\ \E m \in 1..(n - 1) :
                      /\ sdk_calls[m].call = "exists"
                      /\ sdk_calls[m].arg = sdk_calls[n].arg
       /\ Existing = {} =>
             /\ \A n \in DOMAIN sdk_calls : sdk_calls[n].call = "exists"
             /\ status \in {"running", "returned"}
             /\ step \in {"start", "lookup", "found"}
             /\ step = "found" => Len(sdk_calls) = Len(metadata_locations)
             /\ status = "returned" =>
                   /\ step = "found"
                   /\ printed = <<Line("No deployment metadata found", "")>>

C24_Witness ==
    /\ script = "verify_session_with_api"
    /\ Existing = {}
    /\ status = "returned"
    /\ Len(sdk_calls) = 3
    /\ printed = <<Line("No deployment metadata found", "")>>

----------------------------------------------------------------------------
(* Observations of a SessionTester.                                        *)

\* The tester has been constructed as far as its agent engine id.
Resolved == script = "test_sessions" /\ "agent_engine_id" \in DOMAIN locals

\* The candidate paths, as indices, whose file holds a non-empty id.
WithId ==
    {n \in DOMAIN metadata_locations :
        /\ metadata_locations[n] \in DOMAIN files
        /\ "agent_engine_id" \in DOMAIN files[metadata_locations[n]]
        /\ files[metadata_locations[n]].agent_engine_id # <<>>}

\* The lines of .env.production, as indices, that set AGENT_ENGINE_ID.
EngineLines ==
    IF prod_env \in DOMAIN files
    THEN {n \in DOMAIN files[prod_env] :
             StartsWith(files[prod_env][n], EngineIdPrefix)}
    ELSE {}

Blank(s) == \A n \in DOMAIN s : s[n] \in StripChars

\* value is what line sets AGENT_ENGINE_ID to: the text after the prefix
\* without the blanks around it.
IsValueOf(value, line) ==
    /\ value = <<>> \/ (value[1] \notin StripChars
                        /\ value[Len(value)] \notin StripChars)
    /\ \E lead \in 0..Len(line), trail \in 0..Len(line) :
          /\ Len(EngineIdPrefix) + lead + Len(value) + trail = Len(line)
          /\ line = EngineIdPrefix
                       \o SubSeq(line, Len(EngineIdPrefix) + 1,
                                 Len(EngineIdPrefix) + lead)
                       \o value
                       \o SubSeq(line, Len(line) - trail + 1, Len(line))
          /\ Blank(SubSeq(line, Len(EngineIdPrefix) + 1,
                          Len(EngineIdPrefix) + lead))
          /\ Blank(SubSeq(line, Len(line) - trail + 1, Len(line)))

\* C25: the agent engine id of a SessionTester is the AGENT_ENGINE_ID of
\* the environment when that is not empty; otherwise the id of the first
\* metadata file, in the order of the list, that exists and holds a
\* non-empty agent_engine_id; otherwise the value of the (first)
\* AGENT_ENGINE_ID line of .env.production; otherwise None.
C25_EngineIdResolution ==
    Resolved =>
       IF "AGENT_ENGINE_ID" \in DOMAIN environ
          /\ environ["AGENT_ENGINE_ID"] # <<>>
       THEN locals.agent_engine_id = environ["AGENT_ENGINE_ID"]
       ELSE IF WithId # {}
       THEN \E n \in WithId :
               /\ \A m \in WithId : n <= m
               /\ locals.agent_engine_id =
                     files[metadata_locations[n]].agent_engine_id
       ELSE IF EngineLines # {}
       THEN \E n \in EngineLines :
               /\ \A m \in EngineLines : n <= m
               /\ IsValueOf(locals.agent_engine_id, files[prod_env][n])
       ELSE locals.agent_engine_id = NoneStr

\* The first file lacks the key, the second holds an empty id, the third
\* holds the id that is used.
C25_Witness ==
    /\ Resolved
    /\ "AGENT_ENGINE_ID" \notin DOMAIN environ
    /\ ParentLogs \in DOMAIN files
    /\ "agent_engine_id" \notin DOMAIN files[ParentLogs]
    /\ CwdLogs \in DOMAIN files
    /\ PackageLogs \in DOMAIN files
    /\ WithId = {3}
    /\ prod_env \in DOMAIN files
    /\ EngineLines # {}
    /\ locals.agent_engine_id = <<"9">>

\* The calls of the three tests.
SessionCalls ==
    {"create_session", "adk.Runner", "runner.run",
     "session_service.get_session", "new VertexAiSessionService",
     "new_session_service.get_session"}

UpdateCalls == {"adk.Runner", "runner.run", "session_service.get_session"}

PersistenceCalls ==
    {"new VertexAiSessionService", "new_session_service.get_session"}

CallsOf(names) == {n \in DOMAIN sdk_calls : sdk_calls[n].call \in names}

\* C26: a tester without an agent engine id makes no call of any of the
\* three tests; the calls of the update and persistence tests come after a
\* create_session that returned and carry the id of the session it
\* created; once the update test has failed the tester is in, or past, the
\* persistence test.
C26_TestGating ==
    Resolved =>
       /\ ~TruthyStr(locals.agent_engine_id) =>
             /\ CallsOf(SessionCalls) = {}
             /\ status = "returned" =>
                   printed = <<Line("No Agent Engine ID found", "")>>
       /\ \A n \in CallsOf(UpdateCalls \cup PersistenceCalls) :
             /\ \E m \in Entries("create_session", "ok") : m < n
             /\ "session_id" \in DOMAIN locals
             /\ locals.session_id \in SessionIds
             /\ sdk_calls[n].arg = locals.session_id
       /\ Entries("create_session", "raised") # {} =>
             /\ CallsOf(UpdateCalls \cup PersistenceCalls) = {}
             /\ status = "returned"
       /\ \A n \in CallsOf(UpdateCalls) :
             sdk_calls[n].result = "raised" =>
                \/ status = "running" /\ step = "new_session_service"
                \/ \E m \in CallsOf(PersistenceCalls) : n < m

\* The update test failed at its first call and the persistence test ran
\* with the id of the created session.
C26_Witness ==
    /\ Resolved
    /\ status = "returned"
    /\ Entries("adk.Runner", "raised") # {}
    /\ Entries("new_session_service.get_session", "ok") # {}
    /\ locals.session_id = "session-2"

----------------------------------------------------------------------------
(* The queries of verify_session_with_api.                                 *)

\* The queries verify_session_with_api has sent.
IsPost(entry) == entry.call = "requests.post"
Posts == SelectSeq(sdk_calls, IsPost)

\* C27: in verify_session_with_api the second and third queries are sent
\* only after a first query answered with 200, and no query is sent unless
\* the access token was obtained; after the second query, whatever became
\* of it, the script is about to send the third; the first two queries
\* carry the same session id and the third a different one.
C27_RequestSequence ==
    script = "verify_session_with_api" =>
       /\ Len(Posts) <= 3
       /\ Posts # <<>> =>
             /\ Entries("subprocess.run", "ok") # {}
             /\ Entries("subprocess.run", "raised") = {}
       /\ Entries("subprocess.run", "raised") # {} =>
             /\ Posts = <<>>
             /\ status = "returned"
       /\ Len(Posts) >= 2 =>
             /\ Posts[1].result = "ok"
             /\ locals.response1.status_code = 200
             /\ Posts[2].arg = Posts[1].arg
       /\ Len(Posts) = 2 =>
             /\ status = "running"
             /\ step = "request3"
       /\ Len(Posts) = 3 =>
             /\ Posts[3].arg # Posts[1].arg
             /\ Posts[3].arg # Posts[2].arg

C27_Witness ==
    /\ script = "verify_session_with_api"
    /\ Len(Posts) = 3
    /\ Posts[2].result = "raised"
    /\ Posts[3].result = "ok"
    /\ locals.response1.status_code = 200
    /\ status = "returned"

----------------------------------------------------------------------------
(* The callback applied to its own output.                                 *)

\* No title, domain or url of the sources contains a citation tag.
TagFreeSources ==
    \A id \in DOMAIN sources :
       \A f \in DOMAIN sources[id] : ~HasTag(sources[id][f])

\* The tag substitution of a second run of the callback, on the state in
\* which the returned text is the report and the sources are the same.
Reapplied == SubstituteTags(Assign(state, "final_cited_report", content))

\* The second run returns the text it was given.
Unchanged ==
    \E again \in {Reapplied} :
       /\ ~again.raised
       /\ FixPunctuation(again.out) = content

----------------------------------------------------------------------------
(* Observations of a run of cleanup_for_fresh_start.main.                  *)

\* The directory of the pattern ai_docs/prep_templates/memory-tool-dev/*.
TemplateDir == <<"ai_docs", "prep_templates", "memory-tool-dev">>

\* The positions in sdk_calls of the calls that remove, and of those that
\* create.
Removals == CallsOf({"unlink", "shutil.rmtree", "rmdir"})
Creations == CallsOf({"mkdir", "write_text"})

\* C29: the removals of main precede its creations, and when main has
\* returned: no listed file is left, no file of
\* ai_docs/prep_templates/memory-tool-dev is left, nothing of the earlier
\* content of app/memory is left, every directory of new_dirs exists, and
\* each of them below app holds an __init__.py, one that was there before
\* kept as it was.
C29_PostState ==
    script = "cleanup_for_fresh_start" =>
       /\ \A r \in Removals : \A c \in Creations : r < c
       /\ status = "returned" =>
             /\ \A n \in DOMAIN files_to_remove :
                   files_to_remove[n] \notin DOMAIN files
             /\ \A p \in DOMAIN files : Parent(p) # TemplateDir
             /\ \A p \in DOMAIN files :
                   IsUnder(p, <<"app", "memory">>) => files[p] = PackageInit
             /\ \A n \in DOMAIN new_dirs :
                   /\ new_dirs[n] \in dirs
                   /\ new_dirs[n][1] = "app" =>
                         /\ Append(new_dirs[n], "__init__.py") \in DOMAIN files
                         /\ files[Append(new_dirs[n], "__init__.py")]
                               = PackageInit
                            <=> \E c \in Creations :
                                   /\ sdk_calls[c].call = "write_text"
                                   /\ sdk_calls[c].arg =
                                         Append(new_dirs[n], "__init__.py")

----------------------------------------------------------------------------
(* Observations of a run of GCPSetupTester.                                *)

\* The calls of the checks, as positions of sdk_calls.
IsCheck(entry) == \E n \in DOMAIN tests : entry.call = tests[n]
Checks == SelectSeq(sdk_calls, IsCheck)

\* Every check was called and returned a true value.
AllReturnedTrue ==
    /\ Len(Checks) = Len(tests)
    /\ \A n \in DOMAIN Checks : Checks[n].result = "ok" /\ Checks[n].arg

\* The checks are called in the order of the list, none is left out once
\* the loop is over, and each one that raised has its entry in errors.
ChecksRun ==
    /\ Len(Checks) <= Len(tests)
    /\ \A n \in DOMAIN Checks : Checks[n].call = tests[n]
    /\ step # "run_all_tests" => Len(Checks) = Len(tests)
    /\ \A n \in DOMAIN Checks :
          Checks[n].result = "raised" =>
             /\ \E e \in DOMAIN locals.errors :
                   locals.errors[e] = Line("test failed", tests[n])
             /\ ~locals.all_passed
    /\ locals.all_passed <=>
          \A n \in DOMAIN Checks : Checks[n].result = "ok" /\ Checks[n].arg

\* The report that was saved says PASSED exactly when errors is empty.
ReportVerdict ==
    report_file \in DOMAIN files =>
       /\ files[report_file].errors = locals.errors
       /\ files[report_file].status = "PASSED" <=> locals.errors = <<>>

\* C30: the seven checks run in the listed order whether or not an earlier
\* one failed or raised, a check that raises is entered in errors and
\* counts as failed, the saved report says PASSED exactly when errors is
\* empty, and the exit code is 0 exactly when every check returned true
\* and errors is empty.  This fails: when the report cannot be saved, main
\* exits with 1 whatever the checks returned.
C30_Original ==
    script = "test_gcp_setup" =>
       /\ ChecksRun
       /\ ReportVerdict
       /\ status = "exited" =>
             (locals.exit_code = 0
                 <=> AllReturnedTrue /\ locals.errors = <<>>)

\* C30, amended: as above, with the exit code 0 exactly when every check
\* returned true, errors is empty and the report was saved (an exception
\* while the report is saved makes main exit with 1).
C30_Verdict ==
    script = "test_gcp_setup" =>
       /\ ChecksRun
       /\ ReportVerdict
       /\ status = "exited" =>
             (locals.exit_code = 0
                 <=> /\ AllReturnedTrue
                     /\ locals.errors = <<>>
                     /\ report_file \in DOMAIN files)

\* The second check raised, the fifth failed, all seven ran, and the
\* report was saved as FAILED.
C30_Witness ==
    /\ script = "test_gcp_setup"
    /\ status = "exited"
    /\ Len(Checks) = 7
    /\ Checks[2].result = "raised"
    /\ Checks[5].result = "ok" /\ ~Checks[5].arg
    /\ Len(locals.errors) = 2
    /\ report_file \in DOMAIN files
    /\ files[report_file].status = "FAILED"
    /\ locals.exit_code = 1

====
